---- MODULE Spec2Model ----
(***************************************************************************)
(* RelayGraph: hybrid retrieval (multi-method search, reranking, knowledge *)
(* graph expansion) and document ingestion, modelled from the TypeScript   *)
(* sources.                                                                *)
(*                                                                         *)
(* Numbers.  Raw scores, relevance scores and thresholds are in tenths     *)
(* (5 is 0.5).  A reciprocal-rank score 1/(k+rank+1) is kept exactly, as   *)
(* the integer RRFScale/(k+rank+1).  Cosine similarities are kept exactly, *)
(* in 25ths, over embeddings whose norms are integers; "NaN" is the value  *)
(* of 0/0.                                                                 *)
(***************************************************************************)
EXTENDS Integers, Sequences, FiniteSets, TLC

VARIABLES
    \* ---- one reranker call: IReranker.rerank(query, results)
    strategy,     \* RerankerType of the reranker that was created
    rrfK,         \* RRFReranker.k
    threshold,    \* CrossEncoderReranker.threshold, in tenths
    results,      \* the ISearchResult list passed to rerank
    rpc,          \* position of the rerank call
    uniqueItems,  \* deduplicateResults(results) (cross-encoder, mmr)
    scored,       \* cross-encoder: per unique item "pending" or its relevance
    remaining,    \* mmr: candidates not yet selected
    selected,     \* mmr: entries selected so far
    ranked,       \* the IRankedResult list the call resolved with
    \* ---- the graph store and one buildKnowledgeGraph call
    edges,        \* the relationships of the graph store
    seeds,        \* entityIds
    kdepth,       \* depth
    klimit,       \* limit
    kpc,          \* position of the buildKnowledgeGraph call
    additional,   \* additionalEntityIds
    triples,      \* the triples collected so far, and returned
    \* ---- the relational store, the graph store's entities, and ingest calls
    documents,    \* relay_documents: the content hash of each row, by id
    chunkRows,    \* relay_chunks: the rows, in insertion order
    nodes,        \* the Entity nodes of the graph store
    ingests,      \* per ingest call: its position, locals and result
    completed,    \* per content: the document id of the first resolved ingest
    \* ---- one retrieve call: HybridRetriever.retrieve(query, options)
    chunkFacts,      \* per chunk id: similarity and full-text rank for the query
    hits,            \* per entity id: the searchWithScore score for the query
    opts,            \* the options of the call, defaults filled in
    qpc,             \* position of the retrieve call
    subs,            \* per sub-search: off, pending, done or failed
    chunkResults,    \* results of searchChunksMultiMethod
    entityResults,   \* results of searchEntitiesMultiMethod
    reranks,         \* per rerank call: idle, pending, done or failed
    rankedChunks,    \* what rerankChunks resolved with
    rankedEntities,  \* what rerankEntities resolved with
    output,          \* the IRetrievalResult
    \* ---- single calls of the pipeline's parts and of the facade
    merge,        \* one extractFromChunks call: its extractions and entity map
    store,        \* one storeInNeo4j call: its arguments, position and counters
    extractor,    \* one Extractor.process call
    ask,          \* one RelayGraph.ask call, after its retrieve call
    \* ---- single calls of the pipeline's helpers
    slug,         \* one slugify round trip: the name and the slugs made of it
    batch,        \* one batched run: extractFromChunks or batchEmbed
    chunker       \* one FixedSizeStrategy.chunk call

rerankVars == <<strategy, rrfK, threshold, results, rpc, uniqueItems, scored, remaining,
                selected, ranked>>

rerankConfig == <<strategy, rrfK, threshold, results>>

expandVars == <<edges, seeds, kdepth, klimit, kpc, additional, triples>>

expandArgs == <<edges, seeds, kdepth, klimit>>

expandCall == <<seeds, kdepth, klimit, kpc, additional, triples>>

ingestVars == <<documents, chunkRows, nodes, ingests, completed>>

retrieveVars == <<chunkFacts, hits, opts, qpc, subs, chunkResults, entityResults,
                  reranks, rankedChunks, rankedEntities, output>>

retrieveCall == <<chunkFacts, hits, opts>>

unitVars == <<slug, batch, chunker>>

callVars == <<merge, store, extractor, ask, unitVars>>

notRerank == <<expandVars, ingestVars, retrieveVars, callVars>>

notExpand == <<rerankVars, ingestVars, retrieveVars, callVars>>

notIngest == <<rerankVars, expandVars, retrieveVars, callVars>>

notRetrieve == <<rerankVars, expandVars, ingestVars, callVars>>

notStore == <<rerankVars, expandCall, documents, chunkRows, ingests, completed,
              retrieveVars, merge, extractor, ask, unitVars>>

vars == <<rerankVars, expandVars, ingestVars, retrieveVars, callVars>>

(***************************************************************************)
(* Bounds                                                                  *)
(***************************************************************************)
MaxResults == 4       \* results passed to a synchronous strategy (rrf, none)
MaxCandidates == 3    \* results passed to a strategy that calls a capability
MaxK == 1             \* rrf damping constants 0..MaxK besides the default
MaxEdges == 2         \* relationships in the graph store
MaxSeeds == 2         \* entity ids passed to buildKnowledgeGraph
MaxDepth == 2         \* depth passed to buildKnowledgeGraph
MaxLimit == 3         \* limit passed to buildKnowledgeGraph
MaxCalls == 3         \* calls of ingest
MaxChunks == 1        \* chunks of a document
MaxRelations == 1     \* relations extracted from a document
MaxTop == 2           \* maxChunks, maxEntities and maxGraphTriples of a retrieve call
MaxFailures == 1      \* rejected sub-searches, and rejected reranks, of a retrieve call
MaxMentions == 2      \* entity mentions passed to storeInNeo4j's entity map
MaxStored == 3        \* relations passed to storeInNeo4j
MaxMerged == 3        \* entity mentions of the extractions of one extractFromChunks call

(***************************************************************************)
(* Program constants                                                       *)
(***************************************************************************)
DefaultK == 60          \* RRFReranker constructor / retrieve's rrfK default
DefaultThreshold == 5   \* CrossEncoderReranker threshold default, 0.5
NeighborRowLimit == 100 \* getNeighbors: LIMIT 100
BfsSeedCap == 5         \* buildKnowledgeGraph: entityIds.slice(0, 5)
AdditionalCap == 10     \* buildKnowledgeGraph: additionalEntityIds.slice(0, 10)
DefaultMaxChunks == 10        \* retrieve: options?.maxChunks ?? 10
DefaultMaxEntities == 15      \* retrieve: options?.maxEntities ?? 15
DefaultMaxGraphTriples == 20  \* retrieve: options?.maxGraphTriples ?? 20
DefaultBfsDepth == 2          \* retrieve: options?.bfsDepth ?? 2
GraphSeedCap == 3             \* graph entity search: entities.slice(0, 3)
GraphSearchDepth == 2         \* graph entity search: bfsSearch(ids, 2, limit)

SearchMethods == {"bm25", "semantic", "graph"}
RerankerTypes == {"rrf", "cross-encoder", "mmr", "none"}

(***************************************************************************)
(* Sequences                                                               *)
(***************************************************************************)
Front(s) == SubSeq(s, 1, Len(s) - 1)
Last(s) == s[Len(s)]
Range(s) == {s[i] : i \in 1..Len(s)}
SeqsUpTo(S, n) == UNION {[1..m -> S] : m \in 0..n}
RemoveAt(s, i) == SubSeq(s, 1, i - 1) \o SubSeq(s, i + 1, Len(s))
Take(s, n) == SubSeq(s, 1, IF n <= Len(s) THEN n ELSE Len(s))

\* Every order in which the elements of a finite set can be listed.
RECURSIVE Orderings(_)
Orderings(S) ==
    IF S = {} THEN {<<>>}
    ELSE UNION {{<<x>> \o t : t \in Orderings(S \ {x})} : x \in S}

Max2(a, b) == IF a >= b THEN a ELSE b
MaxOf(S) == CHOOSE m \in S : \A n \in S : n <= m
Min2(a, b) == IF a <= b THEN a ELSE b

\* Array.prototype.sort((a, b) => b.score - a.score): stable, descending.
InsertDesc(sorted, e) ==
    LET n == Cardinality({i \in 1..Len(sorted) : sorted[i].score >= e.score})
    IN  SubSeq(sorted, 1, n) \o <<e>> \o SubSeq(sorted, n + 1, Len(sorted))

RECURSIVE SortDesc(_)
SortDesc(s) ==
    IF s = <<>> THEN <<>> ELSE InsertDesc(SortDesc(Front(s)), Last(s))

\* The key is the item's id alone.
ItemKeyIdOnly(item) == <<"id", item.id>>

\* JSON.stringify(result.item): the serialisation of every field of the item.
\* An item of the model carries the fields that are not a function of its id:
\* the id and the score the retriever copies into the item.
ItemKey(item) == <<"id", item.id, "score", item.score>>

\* The index of the map entry with the item's key, 0 when the map has none.
EntryIndex(entries, item) ==
    LET hit == {i \in 1..Len(entries) : ItemKey(entries[i].item) = ItemKey(item)}
    IN  IF hit = {} THEN 0 ELSE CHOOSE i \in hit : TRUE

(***************************************************************************)
(* RRFReranker                                                             *)
(***************************************************************************)
\* resultsBySource: the Map's keys in insertion order.
RECURSIVE SourceOrder(_)
SourceOrder(rs) ==
    IF rs = <<>> THEN <<>>
    ELSE LET before == SourceOrder(Front(rs))
         IN  IF Last(rs).source \in Range(before) THEN before
             ELSE Append(before, Last(rs).source)

\* resultsBySource.get(source): the results of one source, in input order.
BySource(rs, source) == SelectSeq(rs, LAMBDA r : r.source = source)

\* The common denominator of the rank scores of a call with n results.
RECURSIVE RRFScale(_, _)
RRFScale(k, n) == IF n = 0 THEN 1 ELSE (k + n) * RRFScale(k, n - 1)

\* const rrfScore = 1 / (this.k + rank + 1), rank 0-based, times scale.
RRFScore(k, rank, scale) == scale \div (k + rank + 1)

\* entry.score assigned the rank score, not increased by it.
RRFAccumulateAssign(old, rrfScore) == rrfScore

\* entry.score += rrfScore
RRFAccumulate(old, rrfScore) == old + rrfScore

\* One iteration of the rank loop: itemScores after result `r` of `source`
\* at 0-based `rank`.
RRFVisit(entries, r, source, rank, k, scale) ==
    LET i == EntryIndex(entries, r.item)
        base == IF i = 0
                THEN Append(entries, [item |-> r.item, score |-> 0, sources |-> {}])
                ELSE entries
        j == IF i = 0 THEN Len(base) ELSE i
    IN  [base EXCEPT ![j] =
            [item |-> @.item,
             score |-> RRFAccumulate(@.score, RRFScore(k, rank, scale)),
             sources |-> @.sources \cup {source}]]

\* The rank loop over the first n results of one source's sorted list.
RECURSIVE RRFVisitSource(_, _, _, _, _, _)
RRFVisitSource(entries, sorted, n, source, k, scale) ==
    IF n = 0 THEN entries
    ELSE RRFVisit(RRFVisitSource(entries, sorted, n - 1, source, k, scale),
                  sorted[n], source, n - 1, k, scale)

\* The loop over the first n sources of resultsBySource.
RECURSIVE RRFVisitSources(_, _, _, _, _)
RRFVisitSources(rs, order, n, k, scale) ==
    IF n = 0 THEN <<>>
    ELSE LET sorted == SortDesc(BySource(rs, order[n]))
         IN  RRFVisitSource(RRFVisitSources(rs, order, n - 1, k, scale),
                            sorted, Len(sorted), order[n], k, scale)

\* The length of the longest per-source list: the ranks of a call are below it.
LongestSource(rs) ==
    MaxOf({Len(BySource(rs, source)) : source \in SearchMethods})

RRFRerank(rs, k) ==
    LET order == SourceOrder(rs)
    IN  SortDesc(RRFVisitSources(rs, order, Len(order), k,
                                 RRFScale(k, LongestSource(rs))))

(***************************************************************************)
(* NoOpReranker                                                            *)
(***************************************************************************)
\* entry.score keeps the score of the first result of the item.
NoOpScoreFirst(old, score) == old

\* entry.score = Math.max(entry.score, result.score)
NoOpScore(old, score) == Max2(old, score)

RECURSIVE NoOpItemMap(_)
NoOpItemMap(rs) ==
    IF rs = <<>> THEN <<>>
    ELSE LET r == Last(rs)
             entries == NoOpItemMap(Front(rs))
             i == EntryIndex(entries, r.item)
             base == IF i = 0
                     THEN Append(entries, [item |-> r.item, score |-> r.score,
                                           sources |-> {}])
                     ELSE entries
             j == IF i = 0 THEN Len(base) ELSE i
         IN  [base EXCEPT ![j] =
                 [item |-> @.item,
                  score |-> NoOpScore(@.score, r.score),
                  sources |-> @.sources \cup {r.source}]]

NoOpRerank(rs) == SortDesc(NoOpItemMap(rs))

(***************************************************************************)
(* CrossEncoderReranker                                                    *)
(***************************************************************************)
\* deduplicateResults (the cross-encoder's and the mmr reranker's are the
\* same code): one {item, sources} per key, in first-seen order.
RECURSIVE DeduplicateResults(_)
DeduplicateResults(rs) ==
    IF rs = <<>> THEN <<>>
    ELSE LET r == Last(rs)
             seen == DeduplicateResults(Front(rs))
             i == EntryIndex(seen, r.item)
             base == IF i = 0
                     THEN Append(seen, [item |-> r.item, sources |-> {}])
                     ELSE seen
             j == IF i = 0 THEN Len(base) ELSE i
         IN  [base EXCEPT ![j].sources = @ \cup {r.source}]

\* What the chat completion answered: no content, text that is no number, or
\* a decimal number (in tenths).
NoContent == <<"null", 0>>
NotANumber == <<"text", 0>>
Decimal(n) == <<"number", n>>
Completions == {NoContent, NotANumber} \cup {Decimal(n) : n \in {-5, 3, 5, 6, 9, 15}}

\* scoreRelevance after the completion: content?.trim() || "0", parseFloat,
\* NaN -> 0, Math.max(0, Math.min(1, score)).
ScoreRelevance(completion) ==
    IF completion[1] = "number"
    THEN Max2(0, Min2(10, completion[2]))
    ELSE 0

PendingScore == [state |-> "pending", score |-> 0]
SettledScore(n) == [state |-> "settled", score |-> n]

\* scoredItems of Promise.all: in the order of uniqueItems.
ScoredItems(unique, scores) ==
    [i \in 1..Len(unique) |->
        [item |-> unique[i].item, score |-> scores[i].score,
         sources |-> unique[i].sources]]

\* The filter keeps every item, whatever its score.
CrossEncoderKeepAll(scoredItems, th) == SortDesc(scoredItems)

\* scoredItems.filter(score >= threshold).sort(descending)
CrossEncoderFilterSort(scoredItems, th) ==
    SortDesc(SelectSeq(scoredItems, LAMBDA e : e.score >= th))

(***************************************************************************)
(* MMRReranker                                                             *)
(***************************************************************************)
LambdaNum == 1    \* lambda = LambdaNum / LambdaDen = 0.5
LambdaDen == 2

\* Embeddings of the model: two dimensions, integer norms 0, 1 and 5.
Embeddings == {<<0, 0>>, <<1, 0>>, <<-1, 0>>, <<3, 4>>}
CosScale == 5 * 5

NaN == <<"nan", 0>>
Num(n) == <<"num", n>>
NegativeInfinity == <<"-inf", 0>>
IsNum(x) == x[1] = "num"

ISqrt(n) == CHOOSE r \in 0..n : r * r = n

\* cosineSimilarity(a, b) times CosScale; 0/0 is NaN.
CosineSimilarity(a, b) ==
    LET dot == a[1] * b[1] + a[2] * b[2]
        normA == a[1] * a[1] + a[2] * a[2]
        normB == b[1] * b[1] + b[2] * b[2]
    IN  IF normA = 0 \/ normB = 0 THEN NaN
        ELSE Num((dot * CosScale) \div (ISqrt(normA) * ISqrt(normB)))

\* Math.max(x, y)
MathMax(x, y) ==
    IF ~IsNum(x) \/ ~IsNum(y) THEN NaN ELSE Num(Max2(x[2], y[2]))

\* x > y for a number, NaN or -Infinity
Greater(x, y) ==
    /\ IsNum(x)
    /\ \/ y = NegativeInfinity
       \/ IsNum(y) /\ x[2] > y[2]

\* The inner loop over `selected`: the greatest similarity of the candidate
\* to the first n selected entries, from 0.
RECURSIVE MaxSimilarity(_, _, _)
MaxSimilarity(candidate, sel, n) ==
    IF n = 0 THEN Num(0)
    ELSE MathMax(MaxSimilarity(candidate, sel, n - 1),
                 CosineSimilarity(candidate.embedding, sel[n].embedding))

\* lambda * relevance - (1 - lambda) * maxSimilarity, times LambdaDen * CosScale
MMRScore(candidate, sel) ==
    LET maxSimilarity == MaxSimilarity(candidate, sel, Len(sel))
    IN  IF ~IsNum(candidate.relevance) \/ ~IsNum(maxSimilarity) THEN NaN
        ELSE Num(LambdaNum * candidate.relevance[2]
                 - (LambdaDen - LambdaNum) * maxSimilarity[2])

\* The candidate loop: <<bestIdx, bestScore>> after the first n candidates
\* (bestIdx is 1-based here; the code's 0 is the first candidate).
RECURSIVE MMRBest(_, _, _)
MMRBest(rem, sel, n) ==
    IF n = 0 THEN <<1, NegativeInfinity>>
    ELSE LET before == MMRBest(rem, sel, n - 1)
             mmrScore == MMRScore(rem[n], sel)
         IN  IF Greater(mmrScore, before[2]) THEN <<n, mmrScore>> ELSE before

\* remaining.splice(bestIdx, 1) leaves the candidate in the pool.
SpliceKeeps(rem, bestIdx) == rem

\* remaining.splice(bestIdx, 1): the pool without the chosen candidate.
SpliceOut(rem, bestIdx) == RemoveAt(rem, bestIdx)

\* `remaining` as built from uniqueItems and the embeddings response
\* (embeddings[1] is the query's, embeddings[i + 1] item i's).
MMRCandidates(unique, embeddings) ==
    [i \in 1..Len(unique) |->
        [item |-> unique[i].item, sources |-> unique[i].sources,
         embedding |-> embeddings[i + 1],
         relevance |-> CosineSimilarity(embeddings[1], embeddings[i + 1])]]

\* One iteration of `while (remaining.length > 0)`: <<remaining, selected>>.
\* A selected entry keeps its embedding: the code finds it again through
\* uniqueItems.findIndex(u => u.item === sel.item).
MMRIteration(rem, sel) ==
    LET bestIdx == MMRBest(rem, sel, Len(rem))[1]
        best == rem[bestIdx]
    IN  <<SpliceOut(rem, bestIdx),
          Append(sel, [item |-> best.item, score |-> best.relevance,
                       sources |-> best.sources, embedding |-> best.embedding])>>

\* The IRankedResult list of the selected entries.
MMRRanked(sel) ==
    [i \in 1..Len(sel) |->
        [item |-> sel[i].item, score |-> sel[i].score, sources |-> sel[i].sources]]

(***************************************************************************)
(* The graph store: RelationshipRepository.getNeighbors and                *)
(* EntityRepository.bfsSearch                                              *)
(*                                                                         *)
(* A stored relationship is [source, type, target]: MERGE keeps one per    *)
(* (source, type, target).  A query with no ORDER BY returns its rows in   *)
(* an order the store chooses: every order is a possible response.        *)
(***************************************************************************)
EntityIds == {"a", "b", "c"}
RelTypes == {"KNOWS", "USES"}
Relationships ==
    {e \in [source : EntityIds, type : RelTypes, target : EntityIds] :
        e.source # e.target}

Touches(e, n) == n \in {e.source, e.target}
OtherEnd(e, n) == IF e.source = n THEN e.target ELSE e.source

\* MATCH (n:Entity)-[r]-(m:Entity) WHERE n.id IN $entityIds RETURN n, r, m:
\* one row per relationship and matched end n, in either direction; the row
\* is mapped to source = n, target = m.  `fact` is the property of the stored
\* relationship, which the model identifies with the relationship.
NeighborRows(G, ids) ==
    {[source |-> n, relationship |-> e.type, fact |-> e, target |-> OtherEnd(e, n)] :
        <<e, n>> \in {x \in G \X Range(ids) : Touches(x[1], x[2])}}

\* The responses getNeighbors can resolve with.
GetNeighbors(G, ids) ==
    {Take(rows, NeighborRowLimit) : rows \in Orderings(NeighborRows(G, ids))}

\* The paths (start)-[*n]-(end) of exactly n relationships: a path uses no
\* relationship twice and follows relationships in either direction.
RECURSIVE PathsOfLen(_, _, _)
PathsOfLen(G, start, n) ==
    IF n = 0 THEN {[end |-> start, used |-> {}, types |-> <<>>]}
    ELSE UNION {
           {[end |-> OtherEnd(e, p.end), used |-> p.used \cup {e},
             types |-> Append(p.types, e.type)] :
               e \in {x \in G \ p.used : Touches(x, p.end)}} :
           p \in PathsOfLen(G, start, n - 1)}

\* UNWIND $startIds AS startId MATCH path = (start)-[*1..maxDepth]-(n)
\* WHERE n.id <> startId WITH n, min(length(path)) AS depth, relTypes
\* RETURN DISTINCT n, depth, relTypes: one row per (n, relTypes).
BfsRows(G, startIds, maxDepth) ==
    {[entity |-> p.end, depth |-> Len(p.types), path |-> p.types] :
        p \in UNION {UNION {{q \in PathsOfLen(G, s, n) : q.end # s} :
                              n \in 1..maxDepth} : s \in Range(startIds)}}

DepthAscending(rows) ==
    \A i \in 1..Len(rows) : \A j \in i..Len(rows) : rows[i].depth <= rows[j].depth

\* The responses bfsSearch can resolve with: ORDER BY depth ASC LIMIT $limit.
BfsSearch(G, startIds, maxDepth, limit) ==
    {Take(rows, limit) :
        rows \in {o \in Orderings(BfsRows(G, startIds, maxDepth)) : DepthAscending(o)}}

(***************************************************************************)
(* Names, slugs and the entity map                                         *)
(*                                                                         *)
(* A string is the tuple of its characters, so that lower-casing,          *)
(* slugify and String.prototype.includes are computed.  The characters of  *)
(* the model are letters, the space and the hyphen.  The entity map of     *)
(* extractFromChunks is the sequence of its entries in insertion order,    *)
(* each entry with its key `id`.                                           *)
(***************************************************************************)
Lower(ch) == IF ch = "A" THEN "a" ELSE IF ch = "B" THEN "b" ELSE ch

\* String.prototype.toLowerCase
ToLowerCase(s) == [i \in 1..Len(s) |-> Lower(s[i])]

\* String.prototype.includes
Includes(s, t) == \E i \in 0..(Len(s) - Len(t)) : SubSeq(s, i + 1, i + Len(t)) = t

\* slugify, one character at a time: lower case, every run of spaces and
\* hyphens between two kept characters becomes one hyphen, and a run at
\* either end is dropped.  `gap` says that such a run is pending.
RECURSIVE SlugFromEveryGap(_, _, _)
SlugFromEveryGap(s, acc, gap) ==
    IF s = <<>> THEN acc
    ELSE IF Head(s) \in {" ", "-"} THEN SlugFromEveryGap(Tail(s), acc, TRUE)
    ELSE SlugFromEveryGap(Tail(s),
                          acc \o (IF gap THEN <<"-">> ELSE <<>>) \o <<Lower(Head(s))>>,
                          FALSE)

RECURSIVE SlugFrom(_, _, _)
SlugFrom(s, acc, gap) ==
    IF s = <<>> THEN acc
    ELSE IF Head(s) \in {" ", "-"} THEN SlugFrom(Tail(s), acc, acc # <<>>)
    ELSE SlugFrom(Tail(s),
                  acc \o (IF gap THEN <<"-">> ELSE <<>>) \o <<Lower(Head(s))>>,
                  FALSE)

Slugify(s) == SlugFrom(s, <<>>, FALSE)

\* entities.get(id): the position of the entry of key id, 0 when there is none.
EntryOf(entities, id) ==
    IF \E i \in 1..Len(entities) : entities[i].id = id
    THEN CHOOSE i \in 1..Len(entities) : entities[i].id = id
    ELSE 0

\* the description of every later mention is appended
AppendsAlways(existing, entity) == TRUE

\* entity.description && !existing.description.includes(entity.description)
Appends(existing, entity) ==
    entity.description # <<>> /\ ~Includes(existing.description, entity.description)

\* extractFromChunks: the body of `for (const entity of extraction.entities)`.
MergeEntity(entities, entity) ==
    LET id == Slugify(entity.name)
        at == EntryOf(entities, id)
    IN  IF at # 0
        THEN IF Appends(entities[at], entity)
             THEN [entities EXCEPT ![at].description =
                      @ \o <<" ">> \o entity.description]
             ELSE entities
        ELSE Append(entities, [id |-> id, name |-> entity.name, type |-> entity.type,
                               description |-> entity.description])

\* The entity map after the mentions of all extractions, in chunk order.
RECURSIVE ExtractEntities(_)
ExtractEntities(mentions) ==
    IF mentions = <<>> THEN <<>>
    ELSE MergeEntity(ExtractEntities(Front(mentions)), Last(mentions))

\* relations.push({sourceId: slugify(rel.source), targetId: slugify(rel.target), ...})
ExtractRelation(rel) ==
    [source |-> Slugify(rel.source), type |-> rel.type, target |-> Slugify(rel.target)]

\* Map.prototype.set: a key keeps the position of its first insertion.
MapSet(map, key, value) ==
    IF \E i \in 1..Len(map) : map[i].key = key
    THEN [i \in 1..Len(map) |-> IF map[i].key = key THEN [key |-> key, value |-> value]
                                ELSE map[i]]
    ELSE Append(map, [key |-> key, value |-> value])

\* storeInNeo4j: nameToId after its loop over the entity map.
RECURSIVE NameToId(_)
NameToId(entities) ==
    IF entities = <<>> THEN <<>>
    ELSE LET entity == Last(entities)
         IN  MapSet(MapSet(NameToId(Front(entities)),
                           ToLowerCase(entity.name), entity.id),
                    entity.id, entity.id)

\* null
NoId == <<"null">>

\* storeInNeo4j: findEntityId(name).
FindEntityId(entities, name) ==
    LET directId == Slugify(name)
        lowered == ToLowerCase(name)
        nameToId == NameToId(entities)
        exact == {i \in 1..Len(nameToId) : nameToId[i].key = lowered}
        close == {i \in 1..Len(nameToId) :
                     \/ Includes(nameToId[i].key, lowered)
                     \/ Includes(lowered, nameToId[i].key)}
    IN  IF EntryOf(entities, directId) # 0 THEN directId
        ELSE IF exact # {} THEN nameToId[CHOOSE i \in exact : TRUE].value
        ELSE IF close # {}
        THEN nameToId[CHOOSE i \in close : \A j \in close : i <= j].value
        ELSE NoId

\* findEntityId(name) || name: null and the empty string give way to name.
ResolvedId(entities, name) ==
    LET found == FindEntityId(entities, name)
    IN  IF found \in {NoId, <<>>} THEN name ELSE found

\* the target is not looked at
SourceResolved(entities, rel) ==
    EntryOf(entities, ResolvedId(entities, rel.source)) # 0

\* entities.has(sourceId) && entities.has(targetId), for the resolved ends.
BothResolved(entities, rel) ==
    /\ EntryOf(entities, ResolvedId(entities, rel.source)) # 0
    /\ EntryOf(entities, ResolvedId(entities, rel.target)) # 0

\* the relationship as upsertRelationship receives it
ResolvedRelation(entities, rel) ==
    [source |-> ResolvedId(entities, rel.source), type |-> rel.type,
     target |-> ResolvedId(entities, rel.target)]

(***************************************************************************)
(* The graph store: EntityRepository.upsert, RelationshipRepository.upsert *)
(*                                                                         *)
(* An Entity node is [id, type, sourceChunkIds]; its second label is its   *)
(* type (the types of the model are made of letters, which sanitizeLabel   *)
(* leaves alone).  entity_id_unique is in force: init created it.          *)
(***************************************************************************)
\* MERGE (n:Entity:<type> {id: $id}): the nodes the pattern matches.
MergeMatches(ns, data) == {n \in ns : n.id = data.id /\ n.type = data.type}

\* FOR (e:Entity) REQUIRE e.id IS UNIQUE: the MERGE has to create a node,
\* and a node of another type holds the id.
IdTaken(ns, data) ==
    MergeMatches(ns, data) = {} /\ \E n \in ns : n.id = data.id

\* The nodes after an upsert that the store accepted: ON MATCH appends
\* $sourceChunkIds, ON CREATE adds the node.
UpsertedNodes(ns, data) ==
    IF MergeMatches(ns, data) # {}
    THEN {IF n \in MergeMatches(ns, data)
          THEN [n EXCEPT !.sourceChunkIds = @ \o data.sourceChunkIds]
          ELSE n : n \in ns}
    ELSE ns \cup {[id |-> data.id, type |-> data.type,
                   sourceChunkIds |-> data.sourceChunkIds]}

\* MATCH (source), MATCH (target), MERGE (source)-[r:<type>]->(target): no
\* row, and so no write, unless both nodes exist.
UpsertedEdges(es, ns, rel) ==
    IF (\E n \in ns : n.id = rel.source) /\ (\E n \in ns : n.id = rel.target)
    THEN es \cup {rel}
    ELSE es

\* upsertEntity({id, name, type, description}): what the graph store reads of it.
EntityData(entity) == [id |-> entity.id, type |-> entity.type, sourceChunkIds |-> <<>>]

\* storeInNeo4j: the loop of upsertEntity calls, which stops at the first
\* call the store rejects.
RECURSIVE UpsertEntities(_, _)
UpsertEntities(ns, entities) ==
    IF entities = <<>> THEN [nodes |-> ns, thrown |-> FALSE]
    ELSE IF IdTaken(ns, EntityData(Head(entities)))
    THEN [nodes |-> ns, thrown |-> TRUE]
    ELSE UpsertEntities(UpsertedNodes(ns, EntityData(Head(entities))), Tail(entities))

(***************************************************************************)
(* IngestionPipeline.storeInNeo4j, one await at a time                     *)
(*                                                                         *)
(* store.calls is the list of the graph calls issued so far, each with its *)
(* outcome; store.outcomes says, per relation visited, whether it was      *)
(* skipped, written or rejected; store.violated names the constraint that  *)
(* rejected an upsertEntity call, if one did.                              *)
(***************************************************************************)
IdleMerge ==
    [pc |-> "idle", mentions |-> <<>>, i |-> 1, before |-> <<>>, entities |-> <<>>]

\* DEFAULT_MODEL_CONFIG.maxRetries
DefaultMaxRetries == 3

\* maxRetries is a number of the configuration (z.number()), not
\* necessarily whole: the model holds it in halves.
RetryUnit == 2

NoChunk == 0

NoError == [attempt |-> 0, kind |-> "none"]

\* What one chat attempt can come to: a schema-valid extraction, a throw of
\* chat.completions.create, an empty content, content JSON.parse rejects,
\* JSON the schema rejects.
AttemptOutcomes == {"valid", "chatThrows", "empty", "notJson", "notSchema"}

NoExtraction == [entities |-> <<>>, relationships |-> <<>>]

IdleExtractor ==
    [pc |-> "idle", text |-> "", maxRetries |-> DefaultMaxRetries * RetryUnit,
     attempt |-> 1,
     attempts |-> <<>>, extracted |-> "no", extraction |-> NoExtraction,
     thrown |-> NoError, chunkId |-> NoChunk, w |-> 1, deletes |-> <<>>,
     error |-> NoError, result |-> NoChunk]

IdleAsk == [pc |-> "idle", query |-> "", chatCalls |-> <<>>, answer |-> ""]

IdleStore ==
    [pc |-> "idle", entities |-> <<>>, relations |-> <<>>, i |-> 1,
     relationsCreated |-> 0, relationsFailed |-> 0, calls |-> <<>>,
     outcomes |-> <<>>, violated |-> "none"]

\* the loop of upsertEntity calls left out
FirstAwaitRelations(entities) == "relations"

\* storeInNeo4j(entities, relations): its first await is an upsertEntity
\* when the map has an entry, else the relation loop starts.
FirstAwait(entities) == IF entities = <<>> THEN "relations" ELSE "entities"

EntityCall(data, ok) == [op |-> "upsertEntity", data |-> data, ok |-> ok]
RelationCall(rel, ok) == [op |-> "upsertRelationship", data |-> rel, ok |-> ok]

UnitsIdle ==
    /\ slug = [pc |-> "idle"]
    /\ batch = [pc |-> "idle"]
    /\ chunker = [pc |-> "idle"]

CallsIdle ==
    /\ UnitsIdle
    /\ merge = IdleMerge
    /\ store = IdleStore
    /\ extractor = IdleExtractor
    /\ ask = IdleAsk

\* await this.neo4j.upsertEntity(...) resolves.
StoreUpsertEntity ==
    /\ store.pc = "entities"
    /\ LET data == EntityData(store.entities[store.i])
       IN  /\ ~IdTaken(nodes, data)
           /\ nodes' = UpsertedNodes(nodes, data)
           /\ store' = [store EXCEPT
                  !.calls = Append(@, EntityCall(data, TRUE)),
                  !.i = IF store.i = Len(store.entities) THEN 1 ELSE @ + 1,
                  !.pc = IF store.i = Len(store.entities) THEN "relations" ELSE @]
    /\ UNCHANGED <<edges, notStore>>

\* upsertEntity rejects, by entity_id_unique or because the store fails:
\* storeInNeo4j rejects.
StoreEntityRejected ==
    /\ store.pc = "entities"
    /\ store' = [store EXCEPT
           !.calls = Append(@, EntityCall(EntityData(store.entities[store.i]), FALSE)),
           !.violated = IF IdTaken(nodes, EntityData(store.entities[store.i]))
                        THEN "entity_id_unique" ELSE @,
           !.pc = "rejected"]
    /\ UNCHANGED <<nodes, edges, notStore>>

\* One turn of `for (const rel of relations)` whose upsertRelationship, if
\* it is issued, resolves.
StoreRelation ==
    /\ store.pc = "relations"
    /\ store.i <= Len(store.relations)
    /\ LET rel == store.relations[store.i]
           resolved == ResolvedRelation(store.entities, rel)
       IN  IF BothResolved(store.entities, rel)
           THEN /\ edges' = UpsertedEdges(edges, nodes, resolved)
                /\ store' = [store EXCEPT
                       !.calls = Append(@, RelationCall(resolved, TRUE)),
                       !.outcomes = Append(@, "written"),
                       !.relationsCreated = @ + 1,
                       !.i = @ + 1]
           ELSE /\ edges' = edges
                /\ store' = [store EXCEPT
                       !.outcomes = Append(@, "skipped"),
                       !.relationsFailed = @ + 1,
                       !.i = @ + 1]
    /\ UNCHANGED <<nodes, notStore>>

\* upsertRelationship rejects: caught, relationsFailed++.
StoreRelationRejected ==
    /\ store.pc = "relations"
    /\ store.i <= Len(store.relations)
    /\ BothResolved(store.entities, store.relations[store.i])
    /\ store' = [store EXCEPT
           !.calls = Append(@, RelationCall(
                         ResolvedRelation(store.entities, store.relations[store.i]),
                         FALSE)),
           !.outcomes = Append(@, "rejected"),
           !.relationsFailed = @ + 1,
           !.i = @ + 1]
    /\ UNCHANGED <<nodes, edges, notStore>>

\* return relationsCreated
StoreReturn ==
    /\ store.pc = "relations"
    /\ store.i > Len(store.relations)
    /\ store' = [store EXCEPT !.pc = "done"]
    /\ UNCHANGED <<nodes, edges, notStore>>

(***************************************************************************)
(* IngestionPipeline.ingest and PostgresDriver.upsert                      *)
(*                                                                         *)
(* relay_documents is the sequence of the content hashes of its rows, in   *)
(* insertion order: the row at position i has id i, the fresh id that      *)
(* gen_random_uuid() gave it.  relay_chunks is the sequence of its rows.   *)
(* No path of the pipeline or of RelayGraph deletes a document.            *)
(* The Entity nodes ingest writes carry no chunk ids: storeInNeo4j passes   *)
(* none.                                                                   *)
(***************************************************************************)
Contents == {"X", "Y"}

\* crypto.createHash("sha256").update(content).digest("hex"): the contents
\* of the model have distinct digests.
HashContent(content) == <<"sha256", content>>

\* SELECT id FROM relay_documents WHERE content_hash = $1
SelectByHash(docs, contentHash) == {id \in 1..Len(docs) : docs[id] = contentHash}

\* content_hash VARCHAR(64) NOT NULL UNIQUE: an INSERT of a hash that a row
\* holds is rejected.
UniqueViolation(docs, contentHash) == SelectByHash(docs, contentHash) # {}

\* the early return left out
RepeatDocumentNever(docResult) == FALSE

\* if (!docResult.isNew) return createResult(docResult.id, false, 0, 0, 0)
RepeatDocument(docResult) == ~docResult.isNew

CreateResult(documentId, isNewDocument, chunkCount, entityCount, relationCount) ==
    [documentId |-> documentId, isNewDocument |-> isNewDocument,
     chunkCount |-> chunkCount, entityCount |-> entityCount,
     relationCount |-> relationCount]

\* A call slot before ingest is called.
IdleIngest ==
    [pc |-> "idle", content |-> "", prior |-> 0, retry |-> FALSE, docId |-> 0,
     isNew |-> FALSE, chunks |-> 0, chatCalls |-> 0, extractFailed |-> 0, entities |-> <<>>,
     relations |-> <<>>, ops |-> {}, result |-> CreateResult(0, FALSE, 0, 0, 0)]

\* What the extract calls of a document can answer: mentions of the entities
\* "a" and "b", in chunk order, and relationships that start at "a".
Mention(name) == [name |-> name, type |-> "Person", description |-> <<>>]

IngestMentions ==
    {<<>>, <<Mention(<<"a">>)>>, <<Mention(<<"b">>)>>,
     <<Mention(<<"a">>), Mention(<<"b">>)>>}

ExtractedRelations ==
    {ExtractRelation([source |-> <<"a">>, type |-> t, target |-> <<x>>]) :
        t \in RelTypes, x \in {"b", "c"}}

\* What extractFromChunks can resolve with: the entity map and the relation
\* list accumulated over the chunks (empty when every extract call failed).
Extractions ==
    [entities : {ExtractEntities(ms) : ms \in IngestMentions},
     relations : SeqsUpTo(ExtractedRelations, MaxRelations)]

\* The relations storeInNeo4j upserts: both ends in the entity map, and the
\* upsert did not throw.
RelationsCreated(entities, relations, thrown) ==
    {i \in 1..Len(relations) : BothResolved(entities, relations[i]) /\ i \notin thrown}

\* return createResult(...): the call resolves.  completed remembers, per
\* content, the document id of the first ingest that resolved.
IngestReturns(c, call, result) ==
    /\ ingests' = [ingests EXCEPT ![c] = [call EXCEPT !.pc = "done", !.result = result]]
    /\ completed' = [completed EXCEPT ![call.content] =
                        IF @ = 0 THEN result.documentId ELSE @]

\* ingest, from the resolution of upsertDocument to its next await.
IngestChecked(c, call, docResult) ==
    LET known == [call EXCEPT !.docId = docResult.id, !.isNew = docResult.isNew]
    IN  IF RepeatDocument(docResult)
        THEN IngestReturns(c, known, CreateResult(docResult.id, FALSE, 0, 0, 0))
        ELSE /\ ingests' = [ingests EXCEPT ![c] = [known EXCEPT !.pc = "chunk"]]
             /\ UNCHANGED completed

\* an ingest of this content wrote the document row and then rejected
RejectedAfterRow(content) ==
    \E d \in DOMAIN ingests :
        /\ ingests[d].pc = "failed"
        /\ ingests[d].content = content
        /\ ingests[d].isNew

\* ingest(text) is called: up to the SELECT of upsert.  `retry` remembers
\* that the call was made after an ingest of the same content had rejected
\* with its document row written.
IngestCall(c, content) ==
    /\ ingests[c].pc = "idle"
    /\ \A d \in 1..(c - 1) : ingests[d].pc # "idle"
    /\ ingests' = [ingests EXCEPT ![c] =
                      [@ EXCEPT !.pc = "select", !.content = content,
                                !.prior = completed[content],
                                !.retry = RejectedAfterRow(content)]]
    /\ UNCHANGED <<documents, chunkRows, nodes, completed, notIngest>>

\* upsert: the SELECT resolves.
UpsertSelect(c) ==
    /\ ingests[c].pc = "select"
    /\ LET call == ingests[c]
           existing == SelectByHash(documents, HashContent(call.content))
       IN  IF existing # {}
           THEN IngestChecked(c, call,
                    [id |-> CHOOSE id \in existing : \A o \in existing : id <= o,
                     isNew |-> FALSE])
           ELSE /\ ingests' = [ingests EXCEPT ![c].pc = "insert"]
                /\ UNCHANGED completed
    /\ UNCHANGED <<documents, chunkRows, nodes, notIngest>>

\* upsert: the INSERT resolves, or is rejected by the UNIQUE constraint.
UpsertInsert(c) ==
    /\ ingests[c].pc = "insert"
    /\ LET call == ingests[c]
           contentHash == HashContent(call.content)
       IN  IF UniqueViolation(documents, contentHash)
           THEN /\ ingests' = [ingests EXCEPT ![c].pc = "failed"]
                /\ UNCHANGED <<documents, completed>>
           ELSE /\ documents' = Append(documents, contentHash)
                /\ IngestChecked(c, call, [id |-> Len(documents) + 1, isNew |-> TRUE])
    /\ UNCHANGED <<chunkRows, nodes, notIngest>>

\* chunker.chunk(text) resolves with n chunks.
IngestChunk(c) ==
    /\ ingests[c].pc = "chunk"
    /\ \E n \in 0..MaxChunks :
         LET call == [ingests[c] EXCEPT !.ops = @ \cup {"chunk"}, !.chunks = n]
         IN  IF n = 0
             THEN IngestReturns(c, call, CreateResult(call.docId, TRUE, 0, 0, 0))
             ELSE /\ ingests' = [ingests EXCEPT ![c] = [call EXCEPT !.pc = "embed"]]
                  /\ UNCHANGED completed
    /\ UNCHANGED <<documents, chunkRows, nodes, notIngest>>

\* batchEmbed resolves.
IngestEmbed(c) ==
    /\ ingests[c].pc = "embed"
    /\ ingests' = [ingests EXCEPT ![c] =
                      [@ EXCEPT !.ops = @ \cup {"embed"}, !.pc = "addChunks"]]
    /\ UNCHANGED <<documents, chunkRows, nodes, completed, notIngest>>

\* pg.addChunks(docResult.id, chunks) resolves.
IngestAddChunks(c) ==
    /\ ingests[c].pc = "addChunks"
    /\ chunkRows' = chunkRows \o
           [i \in 1..ingests[c].chunks |->
               [documentId |-> ingests[c].docId, chunkIndex |-> i - 1]]
    /\ ingests' = [ingests EXCEPT ![c].pc = "extract"]
    /\ UNCHANGED <<documents, nodes, completed, notIngest>>

\* extract(chunk.content): one chat.completions.create call per chunk
ChatCallsPerChunk == 1

\* catch (error) { return { entities: [], relationships: [] } }: what the
\* chunks give when `failed` of them had their chat call throw or their
\* output rejected by JSON.parse or the schema
Extracted(chunks, failed) ==
    IF failed = chunks
    THEN {x \in Extractions : x.entities = <<>> /\ x.relations = <<>>}
    ELSE Extractions

\* extractFromChunks resolves: every chunk's extract call has resolved, the
\* failed ones with an empty extraction.
IngestExtract(c) ==
    /\ ingests[c].pc = "extract"
    /\ \E failed \in 0..ingests[c].chunks :
         \E x \in Extracted(ingests[c].chunks, failed) :
           ingests' = [ingests EXCEPT ![c] =
                          [@ EXCEPT !.ops = @ \cup {"extract"}, !.pc = "store",
                                    !.chatCalls = ingests[c].chunks * ChatCallsPerChunk,
                                    !.extractFailed = failed,
                                    !.entities = x.entities,
                                    !.relations = x.relations]]
    /\ UNCHANGED <<documents, chunkRows, nodes, completed, notIngest>>

\* storeInNeo4j resolves, and ingest returns; or an upsertEntity call is
\* rejected by entity_id_unique, and ingest rejects with the entities before
\* it written.
IngestStore(c) ==
    /\ ingests[c].pc = "store"
    /\ LET call == [ingests[c] EXCEPT !.ops = @ \cup {"graph"}]
           stored == UpsertEntities(nodes, call.entities)
       IN  /\ nodes' = stored.nodes
           /\ IF stored.thrown
              THEN /\ ingests' = [ingests EXCEPT ![c] = [call EXCEPT !.pc = "failed"]]
                   /\ UNCHANGED <<edges, completed>>
              ELSE \E thrown \in SUBSET (1..Len(call.relations)) :
                     LET created == RelationsCreated(call.entities, call.relations, thrown)
                     IN  /\ edges' = edges \cup
                                {ResolvedRelation(call.entities, call.relations[i]) :
                                    i \in created}
                         /\ IngestReturns(c, call,
                                CreateResult(call.docId, TRUE, call.chunks,
                                             Len(call.entities), Cardinality(created)))
    /\ UNCHANGED <<documents, chunkRows, rerankVars, expandCall, retrieveVars, callVars>>

\* A capability or a store rejects: ingest rejects, nothing is undone.
IngestThrows(c) ==
    /\ ingests[c].pc \in {"chunk", "embed", "addChunks", "store"}
    /\ ingests' = [ingests EXCEPT ![c].pc = "failed"]
    /\ UNCHANGED <<documents, chunkRows, nodes, completed, notIngest>>

IngestIdle ==
    /\ documents = <<>>
    /\ chunkRows = <<>>
    /\ nodes = {}
    /\ ingests = [c \in 1..MaxCalls |-> IdleIngest]
    /\ completed = [content \in Contents |-> 0]

(***************************************************************************)
(* HybridRetriever.retrieve                                                *)
(*                                                                         *)
(* Scores of search results are in 600ths (ScoreUnit is 1.0), so that the  *)
(* quotients of the normalisations and 1/(depth+1) are exact; raw          *)
(* full-text ranks of chunks are in tenths (RankUnit is 1.0).  An item is  *)
(* [id, score]: its other fields (content, name, type, description) are    *)
(* those of the stored row with that id.  A chunk's id is the position of  *)
(* its row in relay_chunks.                                                *)
(*                                                                         *)
(* chunkFacts and hits hold what the stores compute for the query of the   *)
(* call: per chunk the cosine similarity to the query's embedding and the  *)
(* full-text rank (NoRank: no match), per entity the score of              *)
(* searchWithScore (0: no word of the query in its name or description).   *)
(***************************************************************************)
ScoreUnit == 6 * 100
RankUnit == 2 * 5
NoRank == 0 - 1

DefaultOptions ==
    [maxChunks |-> DefaultMaxChunks, maxEntities |-> DefaultMaxEntities,
     maxGraphTriples |-> DefaultMaxGraphTriples,
     chunkThreshold |-> (3 * ScoreUnit) \div 10,
     searchMethods |-> SearchMethods, reranker |-> "rrf",
     bfsDepth |-> DefaultBfsDepth, rrfK |-> DefaultK,
     crossEncoderThreshold |-> DefaultThreshold]

SubSearches == {"chunks:semantic", "chunks:bm25", "entities:bm25", "entities:graph"}

\* The sub-searches the two multi-method searches launch for `methods`.
Launched(methods) ==
    [name \in SubSearches |->
        IF \/ name = "chunks:semantic" /\ "semantic" \in methods
           \/ name = "chunks:bm25" /\ "bm25" \in methods
           \/ name = "entities:bm25" /\ ("semantic" \in methods \/ "bm25" \in methods)
           \/ name = "entities:graph" /\ "graph" \in methods
        THEN "pending" ELSE "off"]

ChunkLimit(o) == o.maxChunks * 3
EntityLimit(o) == o.maxEntities * 2

\* Math.ceil(limit / 3)
SeedLimit(limit) == (limit + 2) \div 3

\* PostgresDriver.search: WHERE similarity >= threshold ORDER BY distance
\* LIMIT limit; rows of equal distance come in any order.
SearchChunks(facts, limit, th) ==
    LET rows == {[id |-> id, similarity |-> facts[id].similarity] :
                    id \in {i \in DOMAIN facts : facts[i].similarity >= th}}
    IN  {Take(o, limit) :
            o \in {x \in Orderings(rows) :
                      \A i \in 1..(Len(x) - 1) : x[i].similarity >= x[i + 1].similarity}}

\* searchBM25(query, limit) -> [{id, content, score}]: at most `limit` of the
\* chunks the query matches, each with its raw rank, best first.
SearchBM25(facts, limit) ==
    LET rows == {[id |-> id, score |-> facts[id].rank] :
                    id \in {i \in DOMAIN facts : facts[i].rank # NoRank}}
    IN  {Take(o, limit) :
            o \in {x \in Orderings(rows) :
                      \A i \in 1..(Len(x) - 1) : x[i].score >= x[i + 1].score}}

\* EntityRepository.searchWithScore: WHERE score > 0 ORDER BY score DESC LIMIT
SearchEntitiesWithScore(h, limit) ==
    LET rows == {[entity |-> e, score |-> h[e]] : e \in {x \in DOMAIN h : h[x] > 0}}
    IN  {Take(o, limit) :
            o \in {x \in Orderings(rows) :
                      \A i \in 1..(Len(x) - 1) : x[i].score >= x[i + 1].score}}

\* EntityRepository.search: the entities a word of the query occurs in,
\* LIMIT limit, in the order the store chooses.
SearchEntities(h, limit) ==
    {Take(o, limit) : o \in Orderings({e \in DOMAIN h : h[e] > 0})}

\* score / maxScore
Normalised(score, maxScore) == (score * ScoreUnit) \div maxScore

\* The results the semantic sub-search pushes for a response.
SemanticChunkResults(chunks) ==
    [i \in 1..Len(chunks) |->
        [item |-> [id |-> chunks[i].id, score |-> chunks[i].similarity],
         score |-> chunks[i].similarity, source |-> "semantic"]]

\* The results the bm25 sub-search pushes: maxScore = Math.max(...scores, 1).
BM25ChunkResults(chunks) ==
    LET maxScore == MaxOf({chunks[i].score : i \in 1..Len(chunks)} \cup {RankUnit})
    IN  [i \in 1..Len(chunks) |->
            [item |-> [id |-> chunks[i].id,
                       score |-> Normalised(chunks[i].score, maxScore)],
             score |-> Normalised(chunks[i].score, maxScore), source |-> "bm25"]]

\* The results the entity full-text sub-search pushes.
BM25EntityResults(entities) ==
    LET maxScore == MaxOf({entities[i].score : i \in 1..Len(entities)} \cup {1})
    IN  [i \in 1..Len(entities) |->
            [item |-> [id |-> entities[i].entity,
                       score |-> Normalised(entities[i].score, maxScore)],
             score |-> Normalised(entities[i].score, maxScore), source |-> "bm25"]]

\* The results the graph sub-search pushes: depthScore = 1 / (depth + 1).
GraphEntityResults(bfsResults) ==
    [i \in 1..Len(bfsResults) |->
        LET depthScore == ScoreUnit \div (bfsResults[i].depth + 1)
        IN  [item |-> [id |-> bfsResults[i].entity, score |-> depthScore],
             score |-> depthScore, source |-> "graph"]]

\* The while loop of MMRReranker.rerank, run to its end.
RECURSIVE MMRRun(_, _)
MMRRun(rem, sel) ==
    IF rem = <<>> THEN sel
    ELSE MMRRun(MMRIteration(rem, sel)[1], MMRIteration(rem, sel)[2])

\* What the capabilities answer during a retrieve call, as functions of the
\* text of the item (the text is that of the row with the item's id):
\* relevance numbers below and above the default threshold, and embeddings.
RetrieveCompletions == {Decimal(3), Decimal(9)}
RetrieveEmbeddings == {<<1, 0>>, <<3, 4>>}
QueryEmbedding == <<1, 0>>

\* The lists reranker.rerank(query, results) can resolve with, for the
\* reranker that createReranker(rerankerType, openai, {k, threshold}) made.
RerankOutcomes(rs, o) ==
    IF o.reranker = "rrf" THEN {RRFRerank(rs, o.rrfK)}
    ELSE IF o.reranker = "none" THEN {NoOpRerank(rs)}
    ELSE IF rs = <<>> THEN {<<>>}
    ELSE LET unique == DeduplicateResults(rs)
             ids == {unique[i].item.id : i \in 1..Len(unique)}
         IN  IF o.reranker = "cross-encoder"
             THEN {CrossEncoderFilterSort(
                       ScoredItems(unique,
                           [i \in 1..Len(unique) |->
                               SettledScore(ScoreRelevance(c[unique[i].item.id]))]),
                       o.crossEncoderThreshold) :
                     c \in [ids -> RetrieveCompletions]}
             ELSE {MMRRanked(MMRRun(
                       MMRCandidates(unique,
                           [i \in 1..(Len(unique) + 1) |->
                               IF i = 1 THEN QueryEmbedding
                               ELSE e[unique[i - 1].item.id]]),
                       <<>>)) :
                     e \in [ids -> RetrieveEmbeddings]}

\* rankedChunks.slice(0, maxChunks) left out
TopOfAll(rankedItems, max) == rankedItems

\* rankedChunks.slice(0, maxChunks), rankedEntities.slice(0, maxEntities)
TopOf(rankedItems, max) == Take(rankedItems, max)

\* chunks: topChunks.map(...)
ChunkOutput(top) ==
    [i \in 1..Len(top) |->
        [id |-> top[i].item.id, similarity |-> top[i].score,
         combinedScore |-> top[i].score]]

\* entities: topEntities.map(...)
EntityOutput(top) ==
    [i \in 1..Len(top) |-> [id |-> top[i].item.id, score |-> top[i].score]]

NoOutput == [chunks |-> <<>>, entities |-> <<>>, knowledgeGraph |-> <<>>]

\* One sub-search resolves: the semantic chunk search.
ChunkSemanticSearch ==
    /\ subs["chunks:semantic"] = "pending"
    /\ \E chunks \in SearchChunks(chunkFacts, ChunkLimit(opts), opts.chunkThreshold) :
         chunkResults' = chunkResults \o SemanticChunkResults(chunks)
    /\ subs' = [subs EXCEPT !["chunks:semantic"] = "done"]
    /\ UNCHANGED <<retrieveCall, qpc, entityResults, reranks, rankedChunks,
                   rankedEntities, output, notRetrieve>>

\* The bm25 chunk search resolves.
ChunkBM25Search ==
    /\ subs["chunks:bm25"] = "pending"
    /\ \E chunks \in SearchBM25(chunkFacts, ChunkLimit(opts)) :
         chunkResults' = chunkResults \o BM25ChunkResults(chunks)
    /\ subs' = [subs EXCEPT !["chunks:bm25"] = "done"]
    /\ UNCHANGED <<retrieveCall, qpc, entityResults, reranks, rankedChunks,
                   rankedEntities, output, notRetrieve>>

\* The entity full-text search resolves.
EntityBM25Search ==
    /\ subs["entities:bm25"] = "pending"
    /\ \E entities \in SearchEntitiesWithScore(hits, EntityLimit(opts)) :
         entityResults' = entityResults \o BM25EntityResults(entities)
    /\ subs' = [subs EXCEPT !["entities:bm25"] = "done"]
    /\ UNCHANGED <<retrieveCall, qpc, chunkResults, reranks, rankedChunks,
                   rankedEntities, output, notRetrieve>>

\* The graph entity search resolves: searchEntities, then bfsSearch from the
\* first three entities when there is one.
EntityGraphSearch ==
    /\ subs["entities:graph"] = "pending"
    /\ \E entities \in SearchEntities(hits, SeedLimit(EntityLimit(opts))) :
         IF Len(entities) > 0
         THEN \E bfsResults \in BfsSearch(edges, Take(entities, GraphSeedCap),
                                          GraphSearchDepth, EntityLimit(opts)) :
                entityResults' = entityResults \o GraphEntityResults(bfsResults)
         ELSE UNCHANGED entityResults
    /\ subs' = [subs EXCEPT !["entities:graph"] = "done"]
    /\ UNCHANGED <<retrieveCall, qpc, chunkResults, reranks, rankedChunks,
                   rankedEntities, output, notRetrieve>>

\* A store or the embedding capability rejects in a sub-search.
SubSearchThrows(name) ==
    /\ subs[name] = "pending"
    /\ Cardinality({n \in SubSearches : subs[n] = "failed"}) < MaxFailures
    /\ subs' = [subs EXCEPT ![name] = "failed"]
    /\ UNCHANGED <<retrieveCall, qpc, chunkResults, entityResults, reranks,
                   rankedChunks, rankedEntities, output, notRetrieve>>

\* Promise.all of the searches resolved: both rerank calls are made.
SearchJoin ==
    /\ qpc = "searching"
    /\ \A name \in SubSearches : subs[name] \in {"off", "done"}
    /\ qpc' = "reranking"
    /\ reranks' = [side \in {"chunks", "entities"} |-> "pending"]
    /\ UNCHANGED <<retrieveCall, subs, chunkResults, entityResults, rankedChunks,
                   rankedEntities, output, notRetrieve>>

\* rerankChunks resolves.
RerankChunks ==
    /\ reranks["chunks"] = "pending"
    /\ \E rankedItems \in RerankOutcomes(chunkResults, opts) :
         rankedChunks' = rankedItems
    /\ reranks' = [reranks EXCEPT !["chunks"] = "done"]
    /\ UNCHANGED <<retrieveCall, qpc, subs, chunkResults, entityResults,
                   rankedEntities, output, notRetrieve>>

\* rerankEntities resolves.
RerankEntities ==
    /\ reranks["entities"] = "pending"
    /\ \E rankedItems \in RerankOutcomes(entityResults, opts) :
         rankedEntities' = rankedItems
    /\ reranks' = [reranks EXCEPT !["entities"] = "done"]
    /\ UNCHANGED <<retrieveCall, qpc, subs, chunkResults, entityResults,
                   rankedChunks, output, notRetrieve>>

\* A capability call of a cross-encoder or mmr rerank rejects.
RerankThrows(side) ==
    /\ reranks[side] = "pending"
    /\ Cardinality({x \in DOMAIN reranks : reranks[x] = "failed"}) < MaxFailures
    /\ opts.reranker \in {"cross-encoder", "mmr"}
    /\ (IF side = "chunks" THEN chunkResults ELSE entityResults) # <<>>
    /\ reranks' = [reranks EXCEPT ![side] = "failed"]
    /\ UNCHANGED <<retrieveCall, qpc, subs, chunkResults, entityResults,
                   rankedChunks, rankedEntities, output, notRetrieve>>

\* A Promise.all of retrieve rejects on the first rejection: retrieve rejects,
\* whatever is still in flight.
RetrieveRejects ==
    /\ \/ qpc = "searching" /\ \E name \in SubSearches : subs[name] = "failed"
       \/ qpc = "reranking" /\ \E side \in DOMAIN reranks : reranks[side] = "failed"
    /\ qpc' = "rejected"
    /\ UNCHANGED <<retrieveCall, subs, chunkResults, entityResults, reranks,
                   rankedChunks, rankedEntities, output, notRetrieve>>

\* Promise.all of the reranks resolved: the slices, then either the call of
\* buildKnowledgeGraph or the return.  output.chunks and output.entities hold
\* topChunks and topEntities as the return statement maps them.
RerankJoin ==
    /\ qpc = "reranking"
    /\ \A side \in DOMAIN reranks : reranks[side] = "done"
    /\ LET topChunks == TopOf(rankedChunks, opts.maxChunks)
           topEntities == TopOf(rankedEntities, opts.maxEntities)
       IN  /\ output' = [chunks |-> ChunkOutput(topChunks),
                         entities |-> EntityOutput(topEntities),
                         knowledgeGraph |-> <<>>]
           /\ IF "graph" \in opts.searchMethods /\ Len(topEntities) > 0
              THEN /\ qpc' = "expanding"
                   /\ seeds' = [i \in 1..Len(topEntities) |-> topEntities[i].item.id]
                   /\ kdepth' = opts.bfsDepth
                   /\ klimit' = opts.maxGraphTriples
                   /\ kpc' = "neighbors"
                   /\ UNCHANGED <<edges, additional, triples>>
              ELSE /\ qpc' = "done"
                   /\ UNCHANGED expandVars
    /\ UNCHANGED <<retrieveCall, subs, chunkResults, entityResults, reranks,
                   rankedChunks, rankedEntities, rerankVars, ingestVars, callVars>>

\* buildKnowledgeGraph resolved: retrieve returns.
RetrieveReturn ==
    /\ qpc = "expanding"
    /\ kpc = "done"
    /\ output' = [output EXCEPT !.knowledgeGraph = triples]
    /\ qpc' = "done"
    /\ UNCHANGED <<retrieveCall, subs, chunkResults, entityResults, reranks,
                   rankedChunks, rankedEntities, notRetrieve>>

RetrieveIdle ==
    /\ chunkFacts = <<>>
    /\ hits = [e \in EntityIds |-> 0]
    /\ opts = DefaultOptions
    /\ qpc = "idle"
    /\ subs = [name \in SubSearches |-> "off"]
    /\ chunkResults = <<>>
    /\ entityResults = <<>>
    /\ reranks = [side \in {"chunks", "entities"} |-> "idle"]
    /\ rankedChunks = <<>>
    /\ rankedEntities = <<>>
    /\ output = NoOutput

(***************************************************************************)
(* HybridRetriever.buildKnowledgeGraph                                     *)
(***************************************************************************)
\* triples.some(t => same source id, target id and relationship)
TripleExists(ts, rel) ==
    \E i \in 1..Len(ts) :
        /\ ts[i].source = rel.source
        /\ ts[i].target = rel.target
        /\ ts[i].relationship = rel.relationship

\* triples.length <= limit
TripleRoomInclusive(ts, limit) == Len(ts) <= limit

\* triples.length < limit
TripleRoom(ts, limit) == Len(ts) < limit

\* The loop over additionalNeighbors, after its first n rows.
RECURSIVE AppendNew(_, _, _, _)
AppendNew(ts, rows, n, limit) ==
    IF n = 0 THEN ts
    ELSE LET before == AppendNew(ts, rows, n - 1, limit)
         IN  IF ~TripleExists(before, rows[n]) /\ TripleRoom(before, limit)
             THEN Append(before, rows[n])
             ELSE before

\* await getNeighbors(entityIds); for (rel of neighbors.slice(0, limit)) push
ExpandNeighbors ==
    /\ kpc = "neighbors"
    /\ \E neighbors \in GetNeighbors(edges, seeds) :
         triples' = Take(neighbors, klimit)
    /\ kpc' = IF kdepth > 1 /\ Len(seeds) > 0 THEN "bfs" ELSE "done"
    /\ UNCHANGED <<expandArgs, additional, notExpand>>

\* await bfsSearch(entityIds.slice(0, 5), depth, limit)
ExpandBfs ==
    /\ kpc = "bfs"
    /\ \E bfsResults \in BfsSearch(edges, Take(seeds, BfsSeedCap), kdepth, klimit) :
         additional' = [i \in 1..Len(bfsResults) |-> bfsResults[i].entity]
    /\ kpc' = IF Len(additional') > 0 THEN "additional" ELSE "done"
    /\ UNCHANGED <<expandArgs, triples, notExpand>>

\* await getNeighbors(additionalEntityIds.slice(0, 10)); append the new ones
ExpandAdditional ==
    /\ kpc = "additional"
    /\ \E rows \in GetNeighbors(edges, Take(additional, AdditionalCap)) :
         triples' = AppendNew(triples, rows, Len(rows), klimit)
    /\ kpc' = "done"
    /\ UNCHANGED <<expandArgs, additional, notExpand>>

Graphs == {G \in SUBSET Relationships : Cardinality(G) <= MaxEdges}

ExpandCallIdle ==
    /\ seeds = <<>>
    /\ kdepth = 0
    /\ klimit = 0
    /\ kpc = "idle"
    /\ additional = <<>>
    /\ triples = <<>>

ExpandIdle ==
    /\ edges = {}
    /\ ExpandCallIdle

RerankIdle ==
    /\ strategy = "none"
    /\ rrfK = DefaultK
    /\ threshold = DefaultThreshold
    /\ results = <<>>
    /\ rpc = "idle"
    /\ uniqueItems = <<>>
    /\ scored = <<>>
    /\ remaining = <<>>
    /\ selected = <<>>
    /\ ranked = <<>>

\* buildKnowledgeGraph(entityIds, depth, limit) called on a graph store.
InitExpand ==
    /\ edges \in Graphs
    /\ seeds \in SeqsUpTo(EntityIds, MaxSeeds)
    /\ kdepth \in 1..MaxDepth
    /\ klimit \in 0..MaxLimit
    /\ kpc = "neighbors"
    /\ additional = <<>>
    /\ triples = <<>>
    /\ RerankIdle
    /\ IngestIdle
    /\ RetrieveIdle
    /\ CallsIdle

NextExpand ==
    \/ ExpandNeighbors
    \/ ExpandBfs
    \/ ExpandAdditional

SpecExpand == InitExpand /\ [][NextExpand]_vars

(***************************************************************************)
(* One rerank call                                                         *)
(***************************************************************************)
\* Items that share an id and differ in a field, and one with another id.
RerankItems ==
    {[id |-> "a", score |-> 5], [id |-> "a", score |-> 9], [id |-> "b", score |-> 5]}
RawScores == {5, 9}
RerankSources == {"semantic", "bm25"}
RRFKs == (0..MaxK) \cup {DefaultK}

SearchResults(items, scores, sources) ==
    [item : items, score : scores, source : sources]

InitRerank ==
    /\ strategy \in RerankerTypes
    /\ rrfK \in IF strategy = "rrf" THEN RRFKs ELSE {DefaultK}
    /\ threshold = DefaultThreshold
    /\ results \in
         IF strategy \in {"rrf", "none"}
         THEN SeqsUpTo(SearchResults(RerankItems, RawScores, RerankSources),
                       MaxResults)
         ELSE SeqsUpTo(SearchResults(RerankItems, {5}, RerankSources),
                       MaxCandidates)
    /\ rpc = "start"
    /\ uniqueItems = <<>>
    /\ scored = <<>>
    /\ remaining = <<>>
    /\ selected = <<>>
    /\ ranked = <<>>
    /\ ExpandIdle
    /\ IngestIdle
    /\ RetrieveIdle
    /\ CallsIdle

RRFRerankCall ==
    /\ rpc = "start"
    /\ strategy = "rrf"
    /\ ranked' = RRFRerank(results, rrfK)
    /\ rpc' = "resolved"
    /\ UNCHANGED <<rerankConfig, uniqueItems, scored, remaining, selected, notRerank>>

NoOpRerankCall ==
    /\ rpc = "start"
    /\ strategy = "none"
    /\ ranked' = NoOpRerank(results)
    /\ rpc' = "resolved"
    /\ UNCHANGED <<rerankConfig, uniqueItems, scored, remaining, selected, notRerank>>

\* CrossEncoderReranker.rerank up to Promise.all: every scoreRelevance call
\* is issued before the first one settles.
CrossEncoderStart ==
    /\ rpc = "start"
    /\ strategy = "cross-encoder"
    /\ IF results = <<>>
       THEN /\ ranked' = <<>>
            /\ rpc' = "resolved"
            /\ UNCHANGED <<uniqueItems, scored>>
       ELSE /\ uniqueItems' = DeduplicateResults(results)
            /\ scored' = [i \in 1..Len(uniqueItems') |-> PendingScore]
            /\ rpc' = "scoring"
            /\ UNCHANGED ranked
    /\ UNCHANGED <<rerankConfig, remaining, selected, notRerank>>

\* One chat completion settles, in any order.
CrossEncoderScored ==
    /\ rpc = "scoring"
    /\ \E i \in 1..Len(scored), completion \in Completions :
         /\ scored[i] = PendingScore
         /\ scored' = [scored EXCEPT ![i] = SettledScore(ScoreRelevance(completion))]
    /\ UNCHANGED <<rerankConfig, rpc, uniqueItems, remaining, selected, ranked, notRerank>>

\* One chat completion throws: Promise.all rejects, and so does rerank.
CrossEncoderThrows ==
    /\ rpc = "scoring"
    /\ \E i \in 1..Len(scored) : scored[i] = PendingScore
    /\ rpc' = "rejected"
    /\ UNCHANGED <<rerankConfig, uniqueItems, scored, remaining, selected, ranked, notRerank>>

\* Promise.all resolved: filter and sort.
CrossEncoderResolve ==
    /\ rpc = "scoring"
    /\ \A i \in 1..Len(scored) : scored[i].state = "settled"
    /\ ranked' = CrossEncoderFilterSort(ScoredItems(uniqueItems, scored), threshold)
    /\ rpc' = "resolved"
    /\ UNCHANGED <<rerankConfig, uniqueItems, scored, remaining, selected, notRerank>>

\* MMRReranker.rerank up to the embeddings request.
MMRStart ==
    /\ rpc = "start"
    /\ strategy = "mmr"
    /\ IF results = <<>>
       THEN /\ ranked' = <<>>
            /\ rpc' = "resolved"
            /\ UNCHANGED uniqueItems
       ELSE /\ uniqueItems' = DeduplicateResults(results)
            /\ rpc' = "embedding"
            /\ UNCHANGED ranked
    /\ UNCHANGED <<rerankConfig, scored, remaining, selected, notRerank>>

\* The embeddings response arrives: one embedding per text, the query first.
MMREmbedded ==
    /\ rpc = "embedding"
    /\ \E embeddings \in [1..(Len(uniqueItems) + 1) -> Embeddings] :
         remaining' = MMRCandidates(uniqueItems, embeddings)
    /\ selected' = <<>>
    /\ rpc' = "selecting"
    /\ UNCHANGED <<rerankConfig, uniqueItems, scored, ranked, notRerank>>

\* The embeddings request throws.
MMREmbedThrows ==
    /\ rpc = "embedding"
    /\ rpc' = "rejected"
    /\ UNCHANGED <<rerankConfig, uniqueItems, scored, remaining, selected, ranked, notRerank>>

\* One iteration of the selection loop.
MMRSelect ==
    /\ rpc = "selecting"
    /\ remaining # <<>>
    /\ remaining' = MMRIteration(remaining, selected)[1]
    /\ selected' = MMRIteration(remaining, selected)[2]
    /\ UNCHANGED <<rerankConfig, rpc, uniqueItems, scored, ranked, notRerank>>

\* The loop ended: return selected.
MMRResolve ==
    /\ rpc = "selecting"
    /\ remaining = <<>>
    /\ ranked' = MMRRanked(selected)
    /\ rpc' = "resolved"
    /\ UNCHANGED <<rerankConfig, uniqueItems, scored, remaining, selected, notRerank>>

NextRerank ==
    \/ RRFRerankCall
    \/ NoOpRerankCall
    \/ CrossEncoderStart
    \/ CrossEncoderScored
    \/ CrossEncoderThrows
    \/ CrossEncoderResolve
    \/ MMRStart
    \/ MMREmbedded
    \/ MMREmbedThrows
    \/ MMRSelect
    \/ MMRResolve

SpecRerank == InitRerank /\ [][NextRerank]_vars

(***************************************************************************)
(* Ingestion: calls of ingest on one pair of stores                        *)
(***************************************************************************)
InitIngest ==
    /\ IngestIdle
    /\ ExpandIdle
    /\ RerankIdle
    /\ RetrieveIdle
    /\ CallsIdle

NextIngest ==
    \E c \in 1..MaxCalls :
        \/ \E content \in Contents : IngestCall(c, content)
        \/ UpsertSelect(c)
        \/ UpsertInsert(c)
        \/ IngestChunk(c)
        \/ IngestEmbed(c)
        \/ IngestAddChunks(c)
        \/ IngestExtract(c)
        \/ IngestStore(c)
        \/ IngestThrows(c)

SpecIngest == InitIngest /\ [][NextIngest]_vars

(***************************************************************************)
(* Graph writes: one storeInNeo4j call on a graph store with nodes         *)
(***************************************************************************)
\* The mentions behind the entity map: the names "a" and "A b" (slugs "a"
\* and "a-b"), of either type.
StoreMentions ==
    SeqsUpTo([name : {<<"a">>, <<"A", " ", "b">>}, type : {"Person", "Organization"},
              description : {<<>>}], MaxMentions)

\* The relationships the extract calls name: "b" is no entity but occurs in
\* the name "A b", "c" occurs in no name.
StoreRelations ==
    {ExtractRelation([source |-> x[1], type |-> "KNOWS", target |-> x[2]]) :
        x \in {<<<<"a">>, <<"A", " ", "b">>>>, <<<<"a">>, <<"b">>>>,
               <<<<"a">>, <<"c">>>>, <<<<"c">>, <<"a">>>>}}

\* The nodes earlier documents left in the graph store.
StoredNodes ==
    {{}, {[id |-> <<"a">>, type |-> "Person", sourceChunkIds |-> <<1>>]},
     {[id |-> <<"a">>, type |-> "Organization", sourceChunkIds |-> <<>>]}}

InitStore ==
    /\ nodes \in StoredNodes
    /\ \E ms \in StoreMentions, rels \in SeqsUpTo(StoreRelations, MaxStored) :
         store = [IdleStore EXCEPT !.entities = ExtractEntities(ms),
                                   !.relations = rels,
                                   !.pc = FirstAwait(ExtractEntities(ms))]
    /\ documents = <<>>
    /\ chunkRows = <<>>
    /\ ingests = [c \in 1..MaxCalls |-> IdleIngest]
    /\ completed = [content \in Contents |-> 0]
    /\ merge = IdleMerge
    /\ extractor = IdleExtractor
    /\ ask = IdleAsk
    /\ UnitsIdle
    /\ ExpandIdle
    /\ RerankIdle
    /\ RetrieveIdle

NextStore ==
    \/ StoreUpsertEntity
    \/ StoreEntityRejected
    \/ StoreRelation
    \/ StoreRelationRejected
    \/ StoreReturn

SpecStore == InitStore /\ [][NextStore]_vars

(***************************************************************************)
(* Extractor: one process(text) call                                       *)
(*                                                                         *)
(* The Extractor writes relay_chunks rows [id, content] through addChunk   *)
(* and deleteChunk, and graph nodes and relationships through mergeNode    *)
(* and createRelationship.  Every awaited call can reject.  An error is    *)
(* [attempt, kind]: the chat attempt that raised it (0 when none did) and  *)
(* what raised it.  extractor.attempts lists the chat calls of extract,    *)
(* each with the text it was given and what it came to; extracted says     *)
(* whether extract has returned or thrown, and thrown is the error it      *)
(* threw; error is the error process rejects with.                        *)
(***************************************************************************)
\* INSERT ... RETURNING id: an id no row has had.
NextChunkId(rows, deleted) ==
    1 + Cardinality({rows[i].id : i \in 1..Len(rows)} \cup Range(deleted))

\* DELETE FROM relay_chunks WHERE id = $1
DeletedChunk(rows, id) == SelectSeq(rows, LAMBDA row : row.id # id)

\* MERGE (n:<label> {id}) SET n.name, n.source_chunk_id, n += properties,
\* n:Entity: the matched or created node carries the chunk id of this call.
MergedNode(ns, label, id, sourceChunkId) ==
    {n \in ns : ~(n.id = id /\ n.type = label)}
        \cup {[id |-> id, type |-> label, sourceChunkIds |-> <<sourceChunkId>>]}

\* writeToGraph: the number of awaited calls
GraphWrites(data) == Len(data.entities) + Len(data.relationships)

\* where process stands once the w-th write of writeToGraph is awaited
AfterWrite(data, w) == IF w > GraphWrites(data) THEN "resolved" ELSE "write"

\* embeddings.create resolves
ProcessEmbed ==
    /\ extractor.pc = "embed"
    /\ extractor' = [extractor EXCEPT !.pc = "addChunk"]
    /\ UNCHANGED <<rerankVars, expandVars, ingestVars, retrieveVars, merge, store, ask, unitVars>>

\* embeddings.create rejects: process rejects, nothing is written
ProcessEmbedThrows ==
    /\ extractor.pc = "embed"
    /\ extractor' = [extractor EXCEPT !.pc = "rejected",
                                      !.error = [attempt |-> 0, kind |-> "embedding"]]
    /\ UNCHANGED <<rerankVars, expandVars, ingestVars, retrieveVars, merge, store, ask, unitVars>>

\* pg.addChunk resolves with the id of the inserted row; extract starts
ProcessAddChunk ==
    /\ extractor.pc = "addChunk"
    /\ LET id == NextChunkId(chunkRows, extractor.deletes)
       IN  /\ chunkRows' = Append(chunkRows, [id |-> id, content |-> extractor.text])
           /\ extractor' = [extractor EXCEPT !.chunkId = id, !.pc = "extract"]
    /\ UNCHANGED <<rerankVars, expandVars, documents, nodes, ingests, completed,
                   retrieveVars, merge, store, ask, unitVars>>

\* pg.addChunk rejects: no row, process rejects
ProcessAddChunkThrows ==
    /\ extractor.pc = "addChunk"
    /\ extractor' = [extractor EXCEPT !.pc = "rejected",
                                      !.error = [attempt |-> 0, kind |-> "addChunk"]]
    /\ UNCHANGED <<rerankVars, expandVars, ingestVars, retrieveVars, merge, store, ask, unitVars>>

\* the catch of a failed attempt that lets the loop go on whatever its number
RethrowsNever(attempt, maxRetries) == FALSE

\* if (attempt === this.config.maxRetries) throw error
Rethrows(attempt, maxRetries) == attempt * RetryUnit = maxRetries

\* attempt <= this.config.maxRetries
LoopGoesOn(attempt, maxRetries) == attempt * RetryUnit <= maxRetries

\* extract: one turn of the loop.  A valid attempt returns its extraction;
\* a failed one is rethrown when it is the maxRetries-th, and otherwise
\* followed by the next attempt.
ExtractAttempt(outcome, data) ==
    /\ extractor.pc = "extract"
    /\ LoopGoesOn(extractor.attempt, extractor.maxRetries)
    /\ LET valid == outcome = "valid"
           failure == [attempt |-> extractor.attempt, kind |-> outcome]
           rethrown == ~valid /\ Rethrows(extractor.attempt, extractor.maxRetries)
       IN  extractor' =
             [extractor EXCEPT
                !.attempts = Append(@, [input |-> extractor.text, outcome |-> outcome]),
                !.extracted = IF valid THEN "returned"
                              ELSE IF rethrown THEN "thrown" ELSE @,
                !.extraction = IF valid THEN data ELSE @,
                !.thrown = IF rethrown THEN failure ELSE @,
                !.error = IF rethrown THEN failure ELSE @,
                !.attempt = IF valid \/ rethrown THEN @ ELSE @ + 1,
                !.pc = IF valid THEN AfterWrite(data, 1)
                       ELSE IF rethrown THEN "rollback"
                       ELSE "extract",
                !.result = IF valid /\ AfterWrite(data, 1) = "resolved"
                           THEN extractor.chunkId ELSE @]
    /\ UNCHANGED <<rerankVars, expandVars, ingestVars, retrieveVars, merge, store, ask, unitVars>>

\* extract: the loop is over without a return or a rethrow
ExtractExhausted ==
    /\ extractor.pc = "extract"
    /\ ~LoopGoesOn(extractor.attempt, extractor.maxRetries)
    /\ extractor' = [extractor EXCEPT !.pc = "rollback",
                                      !.extracted = "thrown",
                                      !.thrown = [attempt |-> 0, kind |-> "allRetries"],
                                      !.error = [attempt |-> 0, kind |-> "allRetries"]]
    /\ UNCHANGED <<rerankVars, expandVars, ingestVars, retrieveVars, merge, store, ask, unitVars>>

\* writeToGraph: the w-th awaited call resolves, a mergeNode for an entity
\* and then a createRelationship for a relationship
WriteToGraph ==
    /\ extractor.pc = "write"
    /\ LET data == extractor.extraction
           w == extractor.w
           k == w - Len(data.entities)
       IN  /\ IF w <= Len(data.entities)
              THEN /\ nodes' = MergedNode(nodes, data.entities[w].type,
                                          Slugify(data.entities[w].name), extractor.chunkId)
                   /\ UNCHANGED edges
              ELSE /\ edges' = UpsertedEdges(edges, nodes,
                                   [source |-> Slugify(data.relationships[k].source),
                                    type |-> data.relationships[k].relation,
                                    target |-> Slugify(data.relationships[k].target)])
                   /\ UNCHANGED nodes
           /\ extractor' = [extractor EXCEPT
                              !.w = w + 1,
                              !.pc = AfterWrite(data, w + 1),
                              !.result = IF AfterWrite(data, w + 1) = "resolved"
                                         THEN extractor.chunkId ELSE @]
    /\ UNCHANGED <<rerankVars, expandCall, documents, chunkRows, ingests, completed,
                   retrieveVars, merge, store, ask, unitVars>>

\* writeToGraph: the w-th awaited call rejects
WriteToGraphThrows ==
    /\ extractor.pc = "write"
    /\ extractor' = [extractor EXCEPT !.pc = "rollback",
                                      !.error = [attempt |-> 0, kind |-> "graph"]]
    /\ UNCHANGED <<rerankVars, expandVars, ingestVars, retrieveVars, merge, store, ask, unitVars>>

\* catch: pg.deleteChunk(chunkId) resolves, and the caught error is rethrown
ProcessDeleteChunk ==
    /\ extractor.pc = "rollback"
    /\ chunkRows' = DeletedChunk(chunkRows, extractor.chunkId)
    /\ extractor' = [extractor EXCEPT !.deletes = Append(@, extractor.chunkId),
                                      !.pc = "rejected"]
    /\ UNCHANGED <<rerankVars, expandVars, documents, nodes, ingests, completed,
                   retrieveVars, merge, store, ask, unitVars>>

\* catch: pg.deleteChunk(chunkId) rejects; its error leaves process in
\* place of the caught one, and the row stays
ProcessDeleteChunkThrows ==
    /\ extractor.pc = "rollback"
    /\ extractor' = [extractor EXCEPT !.deletes = Append(@, extractor.chunkId),
                                      !.error = [attempt |-> 0, kind |-> "deleteChunk"],
                                      !.pc = "rejected"]
    /\ UNCHANGED <<rerankVars, expandVars, ingestVars, retrieveVars, merge, store, ask, unitVars>>

\* The extractions of the model: up to two entities, up to one relationship
\* between the names a and b.
ExtractorEntities ==
    {<<>>, <<[name |-> <<"a">>, type |-> "Person"]>>,
     <<[name |-> <<"a">>, type |-> "Person"], [name |-> <<"B">>, type |-> "Organization"]>>}

ExtractorRelationships ==
    {<<>>, <<[source |-> <<"a">>, relation |-> "KNOWS", target |-> <<"B">>]>>}

ExtractionResults == [entities : ExtractorEntities, relationships : ExtractorRelationships]

\* relay_chunks before the call
ExtractorChunks == {<<>>, <<[id |-> 1, content |-> "old"]>>}

InitExtractor ==
    /\ \E m \in 0..(DefaultMaxRetries * RetryUnit) :
         extractor = [IdleExtractor EXCEPT !.pc = "embed", !.text = "new", !.maxRetries = m]
    /\ chunkRows \in ExtractorChunks
    /\ nodes = {}
    /\ documents = <<>>
    /\ ingests = [c \in 1..MaxCalls |-> IdleIngest]
    /\ completed = [content \in Contents |-> 0]
    /\ merge = IdleMerge
    /\ store = IdleStore
    /\ ask = IdleAsk
    /\ UnitsIdle
    /\ ExpandIdle
    /\ RerankIdle
    /\ RetrieveIdle

NextExtractor ==
    \/ ProcessEmbed
    \/ ProcessEmbedThrows
    \/ ProcessAddChunk
    \/ ProcessAddChunkThrows
    \/ \E outcome \in AttemptOutcomes, data \in ExtractionResults :
         ExtractAttempt(outcome, data)
    \/ ExtractExhausted
    \/ WriteToGraph
    \/ WriteToGraphThrows
    \/ ProcessDeleteChunk
    \/ ProcessDeleteChunkThrows

SpecExtractor == InitExtractor /\ [][NextExtractor]_vars

(***************************************************************************)
(* RelayGraph.ask: retrieve, then synthesizeAnswer                         *)
(*                                                                         *)
(* ask.chatCalls lists the chat.completions.create calls of the call, each *)
(* with the chunk text and the graph text of its user message (the texts   *)
(* joined by the separators, kept as the lists they are joined from).      *)
(* retrieve is called without options: its reranker is rrf, which calls no *)
(* capability.                                                             *)
(***************************************************************************)
\* the guard that lets a context of triples alone through to the chat call
NoContext(context) == Len(context.chunks) = 0 /\ Len(context.knowledgeGraph) = 0

\* context.chunks.length === 0
NoChunks(context) == Len(context.chunks) = 0

\* return "I couldn't find any relevant information."
NoInformation == "I couldn't find any relevant information."

\* completion.choices[0].message.content || "No answer generated.": a
\* content is [null, text], text being the string when it is not null
AnswerOf(content) ==
    IF content.null \/ content.text = "" THEN "No answer generated." ELSE content.text

\* `${t.source.name} -[${t.relationship}]-> ${t.target.name}`
GraphLine(t) == <<t.source.name, " -[", t.relationship, "]-> ", t.target.name>>

\* the user message of the chat call
UserMessage(query, context) ==
    [query |-> query,
     chunkText |-> [i \in 1..Len(context.chunks) |-> context.chunks[i].content],
     graphText |-> [i \in 1..Len(context.knowledgeGraph) |->
                       GraphLine(context.knowledgeGraph[i])]]

\* retriever.retrieve(query) resolves with a context
AskRetrieve(context) ==
    /\ ask.pc = "retrieve"
    /\ output' = context
    /\ ask' = [ask EXCEPT !.pc = "synthesize"]
    /\ UNCHANGED <<rerankVars, expandVars, ingestVars, chunkFacts, hits, opts, qpc, subs,
                   chunkResults, entityResults, reranks, rankedChunks, rankedEntities,
                   merge, store, extractor, unitVars>>

\* retriever.retrieve(query) rejects, and ask with it
AskRetrieveThrows ==
    /\ ask.pc = "retrieve"
    /\ ask' = [ask EXCEPT !.pc = "rejected"]
    /\ UNCHANGED <<rerankVars, expandVars, ingestVars, retrieveVars, merge, store, extractor, unitVars>>

\* synthesizeAnswer up to its await: the fixed answer without chunks, the
\* chat call otherwise
AskSynthesize ==
    /\ ask.pc = "synthesize"
    /\ ask' = IF NoChunks(output)
              THEN [ask EXCEPT !.answer = NoInformation, !.pc = "resolved"]
              ELSE [ask EXCEPT !.chatCalls = Append(@, UserMessage(ask.query, output)),
                               !.pc = "chat"]
    /\ UNCHANGED <<rerankVars, expandVars, ingestVars, retrieveVars, merge, store, extractor, unitVars>>

\* chat.completions.create resolves
AskChatResolves(content) ==
    /\ ask.pc = "chat"
    /\ ask' = [ask EXCEPT !.answer = AnswerOf(content), !.pc = "resolved"]
    /\ UNCHANGED <<rerankVars, expandVars, ingestVars, retrieveVars, merge, store, extractor, unitVars>>

\* chat.completions.create rejects
AskChatThrows ==
    /\ ask.pc = "chat"
    /\ ask' = [ask EXCEPT !.pc = "rejected"]
    /\ UNCHANGED <<rerankVars, expandVars, ingestVars, retrieveVars, merge, store, extractor, unitVars>>

\* The contexts of the model: up to MaxTop chunks out of two, up to one
\* entity, up to one triple.
AskChunks == {[id |-> 1, content |-> "one"], [id |-> 2, content |-> "two"]}

AskTriples ==
    {[source |-> [name |-> "a"], relationship |-> "KNOWS", target |-> [name |-> "b"]]}

AskContexts ==
    [chunks : SeqsUpTo(AskChunks, MaxTop),
     entities : {<<>>, <<[id |-> <<"a">>, score |-> ScoreUnit]>>},
     knowledgeGraph : SeqsUpTo(AskTriples, 1)]

\* message.content of a completion: a text, the empty text, null
CompletionContents ==
    {[null |-> FALSE, text |-> "It is a."], [null |-> FALSE, text |-> ""],
     [null |-> TRUE, text |-> ""]}

InitAsk ==
    /\ \E query \in {"who", "what"} :
         ask = [IdleAsk EXCEPT !.pc = "retrieve", !.query = query]
    /\ merge = IdleMerge
    /\ store = IdleStore
    /\ extractor = IdleExtractor
    /\ UnitsIdle
    /\ IngestIdle
    /\ ExpandIdle
    /\ RerankIdle
    /\ RetrieveIdle

NextAsk ==
    \/ \E context \in AskContexts : AskRetrieve(context)
    \/ AskRetrieveThrows
    \/ AskSynthesize
    \/ \E content \in CompletionContents : AskChatResolves(content)
    \/ AskChatThrows

SpecAsk == InitAsk /\ [][NextAsk]_vars

(***************************************************************************)
(* IngestionPipeline.extractFromChunks: the entity map, mention by mention *)
(*                                                                         *)
(* merge.mentions is the list of the entities of the extractions, in chunk *)
(* order; merge.i is the mention the loop is at, merge.entities the map,   *)
(* and merge.before the map as it was before the last mention was merged.  *)
(***************************************************************************)
\* one turn of `for (const entity of extraction.entities)`
MergeStep ==
    /\ merge.pc = "merging"
    /\ merge.i <= Len(merge.mentions)
    /\ merge' = [merge EXCEPT !.before = merge.entities,
                              !.entities = MergeEntity(@, merge.mentions[merge.i]),
                              !.i = @ + 1]
    /\ UNCHANGED <<rerankVars, expandVars, ingestVars, retrieveVars, store, extractor, ask, unitVars>>

\* return { entities, relations }
MergeReturn ==
    /\ merge.pc = "merging"
    /\ merge.i > Len(merge.mentions)
    /\ merge' = [merge EXCEPT !.pc = "done"]
    /\ UNCHANGED <<rerankVars, expandVars, ingestVars, retrieveVars, store, extractor, ask, unitVars>>

\* The mentions of the model: the names A and a share the slug a; the
\* descriptions are empty, x, y and "x y".
MergeMentions ==
    [name : {<<"A">>, <<"a">>, <<"b">>}, type : {"Person", "Organization"},
     description : {<<>>, <<"x">>, <<"y">>, <<"x", " ", "y">>}]

InitMerge ==
    /\ \E ms \in SeqsUpTo(MergeMentions, MaxMerged) :
         merge = [IdleMerge EXCEPT !.pc = "merging", !.mentions = ms]
    /\ store = IdleStore
    /\ extractor = IdleExtractor
    /\ ask = IdleAsk
    /\ UnitsIdle
    /\ IngestIdle
    /\ ExpandIdle
    /\ RerankIdle
    /\ RetrieveIdle

NextMerge ==
    \/ MergeStep
    \/ MergeReturn

SpecMerge == InitMerge /\ [][NextMerge]_vars

(***************************************************************************)
(* Retrieval: one retrieve call on populated stores                        *)
(***************************************************************************)
\* The option sets of the model.  rrfK, chunkThreshold and
\* crossEncoderThreshold are left at their defaults, and so are the options
\* the call does not read: maxGraphTriples and bfsDepth unless 'graph' is
\* requested.
RetrieveOptions ==
    {o \in [maxChunks : 1..MaxTop, maxEntities : 1..MaxTop,
            maxGraphTriples : (1..MaxTop) \cup {DefaultMaxGraphTriples},
            chunkThreshold : {DefaultOptions.chunkThreshold},
            searchMethods : SUBSET SearchMethods, reranker : RerankerTypes,
            bfsDepth : 1..MaxDepth, rrfK : {DefaultK},
            crossEncoderThreshold : {DefaultThreshold}] :
        IF "graph" \in o.searchMethods
        THEN o.maxGraphTriples # DefaultMaxGraphTriples
        ELSE o.maxGraphTriples = DefaultMaxGraphTriples /\ o.bfsDepth = DefaultBfsDepth}

\* The stores of a retrieve call: one document of two chunks, the entities,
\* and relationships between them.
StoredChunks == [i \in 1..2 |-> [documentId |-> 1, chunkIndex |-> i - 1]]

\* A chunk the query does not match: similarity 0.2, no full-text match.
Unmatched == [similarity |-> (2 * ScoreUnit) \div 10, rank |-> NoRank]

\* Chunk 1 matched has similarity 0.8 and rank 2.0, chunk 2 matched has
\* similarity 1.0 and rank 1.0.
ChunkStores ==
    {[i \in 1..Len(StoredChunks) |->
        IF i \in matched
        THEN [similarity |-> ((10 - 2 * (2 - i)) * ScoreUnit) \div 10,
              rank |-> (3 - i) * RankUnit]
        ELSE Unmatched] :
      matched \in SUBSET (1..Len(StoredChunks))}

\* The query's word is in no entity, in the name of "a", or in the name of
\* "a" and the description of "b".
EntityHits ==
    {[e \in EntityIds |-> 0],
     [e \in EntityIds |-> IF e = "a" THEN 2 ELSE 0],
     [e \in EntityIds |-> IF e = "a" THEN 2 ELSE IF e = "b" THEN 1 ELSE 0]}

RetrieveGraphs ==
    {{},
     {[source |-> "a", type |-> "KNOWS", target |-> "b"],
      [source |-> "b", type |-> "KNOWS", target |-> "c"]}}

\* retrieve(query, options) called on populated stores, its sub-searches
\* launched.  What no requested method reads is left without matches.
InitRetrieve ==
    /\ opts \in RetrieveOptions
    /\ chunkFacts \in
         IF opts.searchMethods \cap {"semantic", "bm25"} # {}
         THEN ChunkStores
         ELSE {[i \in 1..Len(StoredChunks) |-> Unmatched]}
    /\ hits \in IF opts.searchMethods # {}
                THEN EntityHits
                ELSE {[e \in EntityIds |-> 0]}
    /\ edges \in IF "graph" \in opts.searchMethods THEN RetrieveGraphs ELSE {{}}
    /\ ExpandCallIdle
    /\ documents = <<HashContent("X")>>
    /\ chunkRows = StoredChunks
    /\ nodes = {[id |-> e, type |-> "Person", sourceChunkIds |-> <<>>] : e \in EntityIds}
    /\ ingests = [c \in 1..MaxCalls |-> IdleIngest]
    /\ completed = [content \in Contents |-> 0]
    /\ qpc = "searching"
    /\ subs = Launched(opts.searchMethods)
    /\ chunkResults = <<>>
    /\ entityResults = <<>>
    /\ reranks = [side \in {"chunks", "entities"} |-> "idle"]
    /\ rankedChunks = <<>>
    /\ rankedEntities = <<>>
    /\ output = NoOutput
    /\ RerankIdle
    /\ CallsIdle

NextRetrieve ==
    \/ ChunkSemanticSearch
    \/ ChunkBM25Search
    \/ EntityBM25Search
    \/ EntityGraphSearch
    \/ \E name \in SubSearches : SubSearchThrows(name)
    \/ SearchJoin
    \/ RerankChunks
    \/ RerankEntities
    \/ \E side \in {"chunks", "entities"} : RerankThrows(side)
    \/ RetrieveRejects
    \/ RerankJoin
    \/ ExpandNeighbors
    \/ ExpandBfs
    \/ ExpandAdditional
    \/ RetrieveReturn

SpecRetrieve == InitRetrieve /\ [][NextRetrieve]_vars

(***************************************************************************)
(* Reranking: properties                                                   *)
(***************************************************************************)
ItemsOf(rs) == {rs[i].item : i \in 1..Len(rs)}
MethodsOf(rs, item) == {rs[i].source : i \in {n \in 1..Len(rs) : rs[n].item = item}}
ScoresOf(rs, item) == {rs[i].score : i \in {n \in 1..Len(rs) : rs[n].item = item}}
RankedAt(item) == {i \in 1..Len(ranked) : ranked[i].item = item}
PlacedBefore(a, b) ==
    \E i \in RankedAt(a) : \E j \in RankedAt(b) : i < j
NonIncreasing(entries) ==
    \A i \in 1..Len(entries) : \A j \in i..Len(entries) :
        entries[i].score >= entries[j].score
Resolved(s) == strategy = s /\ rpc = "resolved"

\* Item a is in two methods' result sets, item b in one method's only, and
\* every result of either carries the same raw score.
TwoMethodsAgainstOne(a, b) ==
    /\ Cardinality(MethodsOf(results, a)) >= 2
    /\ Cardinality(MethodsOf(results, b)) = 1
    /\ Cardinality(ScoresOf(results, a) \cup ScoresOf(results, b)) = 1

\* No method's result set holds an item twice.
RRFNoRepeats ==
    \A m \in SearchMethods :
        Cardinality(ItemsOf(BySource(results, m))) = Len(BySource(results, m))

\* No method's result set has more than k + 1 results.
RRFShortLists ==
    \A m \in SearchMethods : Len(BySource(results, m)) <= rrfK + 1

\* C3 as stated: for every k >= 0 and every input list, RRF places an item
\* found by two methods strictly before every item found by one method only
\* with an equal per-method raw score.  (Stated here for the input lists in
\* which no method returns an item twice: the claim fails on those already.)
C3_RRFTwoMethodsFirst ==
    (Resolved("rrf") /\ RRFNoRepeats) =>
        \A a \in ItemsOf(results), b \in ItemsOf(results) :
            TwoMethodsAgainstOne(a, b) => PlacedBefore(a, b)

\* C3 amended: the same, for calls in which no method's result set has more
\* than k + 1 results or holds an item twice.
C3_RRFTwoMethodsFirstShortLists ==
    (Resolved("rrf") /\ RRFShortLists /\ RRFNoRepeats) =>
        \A a \in ItemsOf(results), b \in ItemsOf(results) :
            TwoMethodsAgainstOne(a, b) => PlacedBefore(a, b)

\* C3 witness: a short-list call resolved in which the one-method item comes
\* first in the input and the two-method item is ranked first all the same.
C3_Witness ==
    /\ Resolved("rrf")
    /\ RRFShortLists
    /\ RRFNoRepeats
    /\ \E a \in ItemsOf(results), b \in ItemsOf(results) :
         /\ TwoMethodsAgainstOne(a, b)
         /\ results[1].item = b
         /\ ranked[1].item = a

\* The mmr selection loop: the candidates are split between `remaining` and
\* `selected`, each distinct input item in exactly one place.
MMRPartition ==
    LET pool == [i \in 1..(Len(selected) + Len(remaining)) |->
                    IF i <= Len(selected) THEN selected[i].item
                    ELSE remaining[i - Len(selected)].item]
    IN  /\ Len(pool) = Cardinality(ItemsOf(results))
        /\ \A item \in ItemsOf(results) :
               Cardinality({i \in 1..Len(pool) : pool[i] = item}) = 1

\* C4: MMRReranker.rerank terminates for every input and every embeddings
\* response, NaN similarities included: every iteration of the selection
\* loop takes one candidate out of the finite pool, and the call returns
\* exactly one entry per structurally distinct input item.
C4_MMRTerminatesComplete ==
    /\ [](strategy = "mmr" /\ rpc = "selecting" => MMRPartition)
    /\ [](Resolved("mmr") =>
            /\ Len(ranked) = Cardinality(ItemsOf(results))
            /\ \A item \in ItemsOf(results) : Cardinality(RankedAt(item)) = 1)
    /\ [][rpc = "selecting" /\ rpc' = "selecting" =>
            /\ Len(remaining') = Len(remaining) - 1
            /\ Len(selected') = Len(selected) + 1]_vars

\* C4 witness: an mmr call returned three distinct items although a
\* similarity was NaN.
C4_Witness ==
    /\ Resolved("mmr")
    /\ Len(ranked) = 3
    /\ \E i \in 1..3 : ranked[i].score = NaN
    /\ \E i \in 1..3 : IsNum(ranked[i].score)

\* C5: NoOpReranker.rerank returns exactly one entry per structurally
\* distinct item, with the maximum of the item's input scores and exactly the
\* methods it appeared under, in non-increasing score order.
C5_NoOpMaxScore ==
    Resolved("none") =>
        /\ Len(ranked) = Cardinality(ItemsOf(results))
        /\ \A item \in ItemsOf(results) :
               /\ Cardinality(RankedAt(item)) = 1
               /\ \A i \in RankedAt(item) :
                      /\ ranked[i].score = MaxOf(ScoresOf(results, item))
                      /\ ranked[i].sources = MethodsOf(results, item)
        /\ NonIncreasing(ranked)

\* C5 witness: an item scored 5 by one method and then 9 by another is one
\* entry with score 9, ranked before a second item.
C5_Witness ==
    /\ Resolved("none")
    /\ Len(results) >= 3
    /\ results[1].item = results[2].item
    /\ results[1].score = 5 /\ results[2].score = 9
    /\ results[1].source # results[2].source
    /\ Len(ranked) = 2
    /\ ranked[1].item = results[1].item
    /\ ranked[1].score = 9

\* C6: CrossEncoderReranker.rerank returns exactly the distinct input items
\* whose relevance score is at least the threshold, each once with that
\* score, in non-increasing score order, whatever the order in which the
\* scoring calls settled.
C6_CrossEncoderThreshold ==
    Resolved("cross-encoder") =>
        /\ Len(uniqueItems) = Cardinality(ItemsOf(results))
        /\ {uniqueItems[i].item : i \in 1..Len(uniqueItems)} = ItemsOf(results)
        /\ \A i \in 1..Len(uniqueItems) :
               IF scored[i].score >= threshold
               THEN /\ Cardinality(RankedAt(uniqueItems[i].item)) = 1
                    /\ \A j \in RankedAt(uniqueItems[i].item) :
                           ranked[j].score = scored[i].score
               ELSE RankedAt(uniqueItems[i].item) = {}
        /\ NonIncreasing(ranked)

\* C6 witness: relevance 0.9, 0.3 and 0.6 for three distinct items, threshold
\* 0.5: the 0.9 item, then the 0.6 item.
C6_Witness ==
    /\ Resolved("cross-encoder")
    /\ threshold = 5
    /\ Len(uniqueItems) = 3
    /\ scored[1].score = 9 /\ scored[2].score = 3 /\ scored[3].score = 6
    /\ Len(ranked) = 2
    /\ ranked[1].item = uniqueItems[1].item
    /\ ranked[2].item = uniqueItems[3].item

\* C7: the rrf, mmr and no-op rerankers return every structurally distinct
\* input item.
C7_NoItemDropped ==
    (rpc = "resolved" /\ strategy \in {"rrf", "mmr", "none"}) =>
        {ranked[i].item : i \in 1..Len(ranked)} = ItemsOf(results)

\* C7 witness: a reranker other than the cross-encoder returned two items
\* that share an id and differ in a field, found by different methods.
C7_Witness ==
    /\ rpc = "resolved"
    /\ strategy \in {"rrf", "mmr", "none"}
    /\ Len(results) >= 2
    /\ results[1].item.id = results[2].item.id
    /\ results[1].item # results[2].item
    /\ results[1].source # results[2].source
    /\ Cardinality({ranked[i].item : i \in 1..Len(ranked)}) >= 2

C9_NoDuplicateTriples ==
    kpc = "done" =>
        \A i \in 1..Len(triples) : \A j \in 1..Len(triples) :
            (/\ triples[i].source = triples[j].source
             /\ triples[i].target = triples[j].target
             /\ triples[i].relationship = triples[j].relationship) => i = j

(***************************************************************************)
(* Ingestion: properties                                                   *)
(***************************************************************************)
\* C1: a call of ingest(X) made after an ingest(X) resolved returns that
\* call's documentId with isNewDocument = false and chunk, entity and
\* relation counts of 0, and does no chunking, embedding, extraction or
\* graph write: once its SELECT has resolved it has returned.
C1_IdempotentIngest ==
    \A c \in 1..MaxCalls :
        LET call == ingests[c]
        IN  call.prior # 0 =>
                /\ call.ops = {}
                /\ call.pc \in {"select", "done"}
                /\ call.pc = "done" =>
                       call.result = CreateResult(call.prior, FALSE, 0, 0, 0)

\* A first ingest of a content stored chunks and returned, and an ingest of
\* the same content called after that has returned.
C1_Witness ==
    \E c, d \in 1..MaxCalls :
        /\ ingests[d].pc = "done"
        /\ ingests[d].result.isNewDocument
        /\ ingests[d].result.chunkCount > 0
        /\ ingests[d].result.entityCount > 0
        /\ ingests[c].pc = "done"
        /\ ingests[c].content = ingests[d].content
        /\ ingests[c].prior = ingests[d].result.documentId

(***************************************************************************)
(* Retrieval: properties                                                   *)
(***************************************************************************)
NoRepeatedId(items) ==
    \A i, j \in 1..Len(items) : items[i].id = items[j].id => i = j

\* C2: the result of retrieve holds each chunk id at most once in chunks and
\* each entity id at most once in entities.
C2_EachIdOnce ==
    qpc = "done" => NoRepeatedId(output.chunks) /\ NoRepeatedId(output.entities)

EndInBatch(entities, name) ==
    \E i \in 1..Len(entities) : entities[i].id = ResolvedId(entities, name)

Unresolved(entities, rel) ==
    ~(EndInBatch(entities, rel.source) /\ EndInBatch(entities, rel.target))

OutcomeCount(outcomes, kinds) ==
    Cardinality({i \in 1..Len(outcomes) : outcomes[i] \in kinds})

\* C11: in storeInNeo4j a relationship with an end that resolves to no
\* entity of the batch is skipped and counted as failed, a rejected
\* upsertRelationship is counted as failed, neither makes the call reject,
\* every other relationship is written, all relationships are visited, and
\* the count returned is the number of upsertRelationship calls that resolved.
C11_RelationFailuresCounted ==
    LET visited == Len(store.outcomes)
        resolvedCalls == {j \in 1..Len(store.calls) :
                             store.calls[j].op = "upsertRelationship" /\ store.calls[j].ok}
    IN  /\ store.pc = "rejected" => visited = 0
        /\ \A i \in 1..visited :
             LET rel == store.relations[i]
             IN  /\ Unresolved(store.entities, rel) => store.outcomes[i] = "skipped"
                 /\ ~Unresolved(store.entities, rel) =>
                        store.outcomes[i] \in {"written", "rejected"}
                 /\ store.outcomes[i] = "written" =>
                        ResolvedRelation(store.entities, rel) \in edges
        /\ store.relationsCreated = OutcomeCount(store.outcomes, {"written"})
        /\ store.relationsCreated = Cardinality(resolvedCalls)
        /\ store.relationsFailed = OutcomeCount(store.outcomes, {"skipped", "rejected"})
        /\ store.pc = "done" => visited = Len(store.relations)

\* Three relationships, one of them with a target that resolves to nothing:
\* the call returned 2.
C11_Witness ==
    /\ store.pc = "done"
    /\ Len(store.relations) = 3
    /\ store.relationsCreated = 2
    /\ \E i \in 1..3 :
         /\ store.outcomes[i] = "skipped"
         /\ ~EndInBatch(store.entities, store.relations[i].target)
         /\ \A j \in (1..3) \ {i} : store.outcomes[j] = "written"

\* C12: in the list of graph calls of one storeInNeo4j call no upsertEntity
\* comes after an upsertRelationship, and every upsertRelationship has a
\* source and a target that earlier upsertEntity calls of the list upserted.
C12_EntitiesBeforeRelations ==
    \A j \in 1..Len(store.calls) :
        store.calls[j].op = "upsertRelationship" =>
            /\ \A k \in (j + 1)..Len(store.calls) : store.calls[k].op # "upsertEntity"
            /\ \A end \in {store.calls[j].data.source, store.calls[j].data.target} :
                 \E k \in 1..(j - 1) :
                     /\ store.calls[k].op = "upsertEntity"
                     /\ store.calls[k].ok
                     /\ store.calls[k].data.id = end

\* Two entities were upserted, then a relationship between them.
C12_Witness ==
    /\ store.pc = "done"
    /\ \E j \in 1..Len(store.calls) :
         /\ store.calls[j].op = "upsertRelationship"
         /\ store.calls[j].data.source # store.calls[j].data.target
    /\ Cardinality({j \in 1..Len(store.calls) : store.calls[j].op = "upsertEntity"}) = 2

(***************************************************************************)
(* Extractor: properties                                                   *)
(***************************************************************************)
\* the chunk process stored is a row of relay_chunks
ChunkStored == \E i \in 1..Len(chunkRows) : chunkRows[i].id = extractor.chunkId

\* C13: in every state where process has rejected after addChunk stored its
\* chunk, deleteChunk has been called for that chunk id and the chunk is no
\* longer in relay_chunks.
C13_RolledBackOnReject ==
    (extractor.pc = "rejected" /\ extractor.chunkId # NoChunk) =>
        /\ extractor.deletes = <<extractor.chunkId>>
        /\ ~ChunkStored

\* the error of the last chat attempt
LastAttemptError ==
    [attempt |-> Len(extractor.attempts),
     kind |-> extractor.attempts[Len(extractor.attempts)].outcome]

\* the error of the loop that ended without a return or a rethrow
AllRetriesError == [attempt |-> 0, kind |-> "allRetries"]

\* extract issues at most maxRetries chat calls, all with the text it was
\* given; no call follows a valid attempt; it returns only with a valid last
\* attempt, and throws only when all the attempts that maxRetries allows
\* have failed
RetriesBounded ==
    LET calls == extractor.attempts
        n == Len(calls)
    IN  /\ n * RetryUnit <= extractor.maxRetries
        /\ \A i \in 1..n : calls[i].input = extractor.text
        /\ \A i \in 1..(n - 1) : calls[i].outcome # "valid"
        /\ extractor.extracted = "no" =>
              /\ \A i \in 1..n : calls[i].outcome # "valid"
              /\ extractor.pc = "extract" => extractor.attempt = n + 1
        /\ extractor.extracted = "returned" =>
              /\ n >= 1
              /\ calls[n].outcome = "valid"
              /\ extractor.thrown = NoError
        /\ extractor.extracted = "thrown" =>
              /\ (n + 1) * RetryUnit > extractor.maxRetries
              /\ \A i \in 1..n : calls[i].outcome # "valid"
              /\ extractor.thrown # NoError
        /\ extractor.pc \in {"write", "resolved"} => extractor.extracted = "returned"

\* C14: extract issues at most maxRetries chat calls with the same inputs,
\* returns the first valid attempt without further attempts, never returns
\* without a valid attempt, and when all its attempts have failed throws
\* the error of the last attempt, for every maxRetries >= 0.
C14_BoundedRetries ==
    /\ RetriesBounded
    /\ (extractor.extracted = "thrown" /\ Len(extractor.attempts) >= 1) =>
           extractor.thrown = LastAttemptError

\* C14, amended: as above, but the error thrown is the last attempt's when
\* maxRetries is a positive whole number, and the error of the exhausted
\* loop when maxRetries is 0 or not whole.
C14_BoundedRetriesWholeCounts ==
    /\ RetriesBounded
    /\ extractor.extracted = "thrown" =>
           extractor.thrown =
               IF /\ Len(extractor.attempts) >= 1
                  /\ Len(extractor.attempts) * RetryUnit = extractor.maxRetries
               THEN LastAttemptError
               ELSE AllRetriesError

\* extract has thrown the schema error of its third attempt, of three, after
\* two attempts that failed otherwise
C14_Witness ==
    /\ extractor.maxRetries = 3 * RetryUnit
    /\ extractor.extracted = "thrown"
    /\ Len(extractor.attempts) = 3
    /\ extractor.attempts[1].outcome = "chatThrows"
    /\ extractor.attempts[2].outcome = "notJson"
    /\ extractor.thrown = [attempt |-> 3, kind |-> "notSchema"]

(***************************************************************************)
(* Ingestion: failed extractions                                           *)
(***************************************************************************)
\* C15: an ingest call in which the extraction of a chunk failed does not
\* complete: no resolved call has a failed extraction behind it.
C15_ExtractionFailurePropagates ==
    \A c \in 1..MaxCalls :
        ingests[c].pc = "done" => ingests[c].extractFailed = 0

(***************************************************************************)
(* Ingestion: concurrent calls for one content                             *)
(***************************************************************************)
\* the call was rejected by upsertDocument: it failed before it had a
\* document id
UpsertRejected(c) == ingests[c].pc = "failed" /\ ingests[c].docId = 0

\* two resolved calls for one content agree on the document id and are not
\* both new, and relay_documents holds one row per content hash
ResolvedCallsAgree ==
    /\ \A c, d \in 1..MaxCalls :
         (/\ c # d
          /\ ingests[c].pc = "done" /\ ingests[d].pc = "done"
          /\ ingests[c].content = ingests[d].content) =>
             /\ ingests[c].result.documentId = ingests[d].result.documentId
             /\ ~(ingests[c].result.isNewDocument /\ ingests[d].result.isNewDocument)
    /\ \A content \in Contents :
         Cardinality(SelectByHash(documents, HashContent(content))) <= 1

\* C18: of ingest calls for identical content that run concurrently, none
\* is rejected by the document upsert; those that resolve return the same
\* documentId, only one of them with isNewDocument = true, and one document
\* row holds the content hash.
C18_ConcurrentIdenticalIngests ==
    /\ \A c \in 1..MaxCalls : ~UpsertRejected(c)
    /\ ResolvedCallsAgree

(***************************************************************************)
(* Retrieval: the fan-out of sub-searches                                  *)
(***************************************************************************)
\* C16: the retrieve call, and with it the multi-method searches it joins,
\* is past its search stage (reranking, expanding, resolved or rejected)
\* only when every sub-search it launched has settled.
C16_CompletesAfterAllSettle ==
    qpc \notin {"idle", "searching"} =>
        \A name \in SubSearches : subs[name] # "pending"

(***************************************************************************)
(* Graph writes: Entity nodes                                              *)
(***************************************************************************)
\* the graph holds one Entity node per id
OneNodePerId == \A n, m \in nodes : n.id = m.id => n = m

\* an upsert leaves every node's source_chunk_ids a prefix of what it is
\* afterwards
ChunkIdsKept ==
    [][\A n \in nodes : \E m \in nodes' :
          /\ m.id = n.id /\ m.type = n.type
          /\ Len(n.sourceChunkIds) <= Len(m.sourceChunkIds)
          /\ SubSeq(m.sourceChunkIds, 1, Len(n.sourceChunkIds)) = n.sourceChunkIds]_vars

\* C17: the graph holds at most one Entity node per id, and no upsertEntity
\* call for an id the graph holds is rejected for holding it, whatever the
\* type it carries.
C17_UpsertOfExistingIdSucceeds ==
    /\ OneNodePerId
    /\ store.violated = "none"

(***************************************************************************)
(* RelayGraph.ask: properties                                              *)
(***************************************************************************)
\* C19: once retrieve has resolved with zero chunks, the call issues no chat
\* call and resolves with "I couldn't find any relevant information.",
\* whatever entities and triples the context holds.
C19_NoChatWithoutChunks ==
    Len(output.chunks) = 0 =>
        /\ ask.chatCalls = <<>>
        /\ ask.pc # "chat"
        /\ ask.pc = "resolved" => ask.answer = NoInformation

\* ask resolved on a context with an entity and a triple and no chunk
C19_Witness ==
    /\ ask.pc = "resolved"
    /\ Len(output.chunks) = 0
    /\ Len(output.entities) = 1
    /\ Len(output.knowledgeGraph) = 1

(***************************************************************************)
(* The entity map: properties                                              *)
(***************************************************************************)
\* the first of the merged mentions whose name has the slug id
FirstMention(id) ==
    merge.mentions[CHOOSE j \in 1..(merge.i - 1) :
                      /\ Slugify(merge.mentions[j].name) = id
                      /\ \A k \in 1..(j - 1) : Slugify(merge.mentions[k].name) # id]

\* C20: every entry of the entity map has the name and the type of the
\* first mention of its id; the last merged mention, when its id had an
\* entry, changed nothing but that entry's description, and that only by
\* appending its own description after a space when this is non-empty and
\* not a substring of the description so far; and merging it once more
\* leaves the map as it is.
C20_MergeKeepsFirstMention ==
    LET map == merge.entities
        merged == merge.i - 1
    IN  /\ \A e \in 1..Len(map) :
              /\ map[e].name = FirstMention(map[e].id).name
              /\ map[e].type = FirstMention(map[e].id).type
        /\ merged >= 1 =>
              LET mention == merge.mentions[merged]
                  at == EntryOf(merge.before, Slugify(mention.name))
                  old == merge.before[at].description
              IN  /\ at # 0 =>
                        /\ Len(map) = Len(merge.before)
                        /\ \A e \in (1..Len(map)) \ {at} : map[e] = merge.before[e]
                        /\ map[at].description =
                              IF mention.description # <<>>
                                   /\ ~Includes(old, mention.description)
                              THEN old \o <<" ">> \o mention.description
                              ELSE old
                  /\ MergeEntity(map, mention) = map

\* a third mention of an id whose description, "x y", is new to the entry,
\* after a second one whose description, x, was in it already
C20_Witness ==
    /\ merge.pc = "done"
    /\ Len(merge.mentions) = 3
    /\ Len(merge.entities) = 1
    /\ merge.mentions[1].name # merge.mentions[2].name
    /\ merge.entities[1].description = <<"x", " ", "x", " ", "y">>

(***************************************************************************)
(* Reranking: the order of the returned list                               *)
(***************************************************************************)
\* score x is not below score y; the mmr strategy carries its scores as
\* numbers or NaN, and a NaN is left out of the comparison
NotBelow(x, y) ==
    IF strategy = "mmr"
    THEN ~IsNum(x) \/ ~IsNum(y) \/ x[2] >= y[2]
    ELSE x >= y

\* C21: the list a rerank call of any strategy resolves with is in
\* non-increasing order of the score its entries carry.
C21_RankedByCarriedScore ==
    rpc = "resolved" =>
        \A i \in 1..Len(ranked) : \A j \in i..Len(ranked) :
            NotBelow(ranked[i].score, ranked[j].score)

(***************************************************************************)
(* Identity resolution: slugify, applied to a name, to its slug and to the *)
(* name in lower and in upper case                                         *)
(***************************************************************************)
MaxName == 4

NameChars == {"a", "b", "A", "B", " ", "-"}

Upper(ch) == IF ch = "a" THEN "A" ELSE IF ch = "b" THEN "B" ELSE ch

\* String.prototype.toUpperCase
ToUpperCase(s) == [i \in 1..Len(s) |-> Upper(s[i])]

\* slugify(name)
SlugOfName ==
    /\ slug.pc = "named"
    /\ slug' = [slug EXCEPT !.pc = "slugged", !.id = Slugify(slug.name)]
    /\ UNCHANGED <<rerankVars, expandVars, ingestVars, retrieveVars, merge, store,
                   extractor, ask, batch, chunker>>

\* slugify(id), the id being a slug already
SlugOfSlug ==
    /\ slug.pc = "slugged"
    /\ slug' = [slug EXCEPT !.pc = "again", !.again = Slugify(slug.id)]
    /\ UNCHANGED <<rerankVars, expandVars, ingestVars, retrieveVars, merge, store,
                   extractor, ask, batch, chunker>>

\* slugify of the name in lower case and in upper case
SlugOfCases ==
    /\ slug.pc = "again"
    /\ slug' = [slug EXCEPT !.pc = "done",
                            !.lowered = Slugify(ToLowerCase(slug.name)),
                            !.uppered = Slugify(ToUpperCase(slug.name))]
    /\ UNCHANGED <<rerankVars, expandVars, ingestVars, retrieveVars, merge, store,
                   extractor, ask, batch, chunker>>

InitSlug ==
    /\ RerankIdle
    /\ ExpandIdle
    /\ IngestIdle
    /\ RetrieveIdle
    /\ merge = IdleMerge
    /\ store = IdleStore
    /\ extractor = IdleExtractor
    /\ ask = IdleAsk
    /\ batch = [pc |-> "idle"]
    /\ chunker = [pc |-> "idle"]
    /\ \E name \in SeqsUpTo(NameChars, MaxName) :
           slug = [pc |-> "named", name |-> name, id |-> <<>>, again |-> <<>>,
                   lowered |-> <<>>, uppered |-> <<>>]

NextSlug == SlugOfName \/ SlugOfSlug \/ SlugOfCases

SpecSlug == InitSlug /\ [][NextSlug]_vars

\* the slug has no two hyphens in a row, and no hyphen at either end
WellHyphenated(id) ==
    /\ \A i \in 1..(Len(id) - 1) : ~(id[i] = "-" /\ id[i + 1] = "-")
    /\ id # <<>> => id[1] # "-" /\ id[Len(id)] # "-"

InLaunchOrder(rs, first) ==
    LET IsFirst(r) == r.source = first
        IsLater(r) == r.source # first
    IN  SelectSeq(rs, IsFirst) \o SelectSeq(rs, IsLater)

\* the strategies whose rerank call asks no capability
OwnScores(o) == o.reranker \in {"rrf", "none"}

\* what retrieve returns for the responses held in chunkResults and
\* entityResults when the sub-searches complete in launch order
ChunksInLaunchOrder ==
    LET rankedItems == CHOOSE r \in RerankOutcomes(InLaunchOrder(chunkResults, "semantic"),
                                                   opts) : TRUE
    IN  ChunkOutput(TopOf(rankedItems, opts.maxChunks))

EntitiesInLaunchOrder ==
    LET rankedItems == CHOOSE r \in RerankOutcomes(InLaunchOrder(entityResults, "bm25"),
                                                   opts) : TRUE
    IN  EntityOutput(TopOf(rankedItems, opts.maxEntities))

\* C23: for given responses of the stores, what retrieve returns (chunks and
\* entities, their scores and order) is what it returns when the sub-searches
\* complete in launch order, whatever order they completed in.
C23_CompletionOrderBlind ==
    qpc = "done" /\ OwnScores(opts) =>
        /\ output.chunks = ChunksInLaunchOrder
        /\ output.entities = EntitiesInLaunchOrder

(***************************************************************************)
(* Retrieval: the lexical searches alone, over a wider range of raw scores *)
(***************************************************************************)
\* no match, a match of rank 0, 0.5, 1.0 and 2.0
LexicalRanks == {NoRank, 0, RankUnit \div 2, RankUnit, 2 * RankUnit}

LexicalStores ==
    {[i \in 1..Len(StoredChunks) |->
        [similarity |-> Unmatched.similarity, rank |-> r[i]]] :
      r \in [1..Len(StoredChunks) -> LexicalRanks]}

\* retrieve(query, {searchMethods: ['bm25']}), its sub-searches launched
InitLexical ==
    /\ opts \in {o \in RetrieveOptions : o.searchMethods = {"bm25"} /\ o.reranker = "rrf"}
    /\ chunkFacts \in LexicalStores
    /\ hits \in EntityHits
    /\ edges = {}
    /\ ExpandCallIdle
    /\ documents = <<HashContent("X")>>
    /\ chunkRows = StoredChunks
    /\ nodes = {[id |-> e, type |-> "Person", sourceChunkIds |-> <<>>] : e \in EntityIds}
    /\ ingests = [c \in 1..MaxCalls |-> IdleIngest]
    /\ completed = [content \in Contents |-> 0]
    /\ qpc = "searching"
    /\ subs = Launched(opts.searchMethods)
    /\ chunkResults = <<>>
    /\ entityResults = <<>>
    /\ reranks = [side \in {"chunks", "entities"} |-> "idle"]
    /\ rankedChunks = <<>>
    /\ rankedEntities = <<>>
    /\ output = NoOutput
    /\ RerankIdle
    /\ CallsIdle

NextLexical ==
    \/ ChunkBM25Search
    \/ EntityBM25Search
    \/ SearchJoin
    \/ RerankChunks
    \/ RerankEntities
    \/ RerankJoin

SpecLexical == InitLexical /\ [][NextLexical]_vars

\* the results a lexical sub-search pushed
LexicalOf(rs) ==
    LET IsLexical(r) == r.source = "bm25"
    IN  SelectSeq(rs, IsLexical)

\* every score is in [0, 1]
InUnitRange(rs) == \A i \in 1..Len(rs) : rs[i].score >= 0 /\ rs[i].score <= ScoreUnit

\* C24: in every non-empty lexical batch whose greatest raw score is positive
\* the top hit's normalised score is exactly 1.0, every normalised score is
\* in [0, 1], and a batch of raw scores 0 is divided by 1.
C24_LexicalTopIsOne ==
    LET chunks == LexicalOf(chunkResults)
        entities == LexicalOf(entityResults)
    IN  /\ InUnitRange(chunks) /\ InUnitRange(entities)
        /\ chunks # <<>> =>
              IF \E i \in 1..Len(chunks) : chunkFacts[chunks[i].item.id].rank > 0
              THEN chunks[1].score = ScoreUnit
              ELSE \A i \in 1..Len(chunks) : chunks[i].score = 0
        /\ entities # <<>> => entities[1].score = ScoreUnit

(***************************************************************************)
(* Retrieval: the graph search of entities                                 *)
(***************************************************************************)
\* the results the graph sub-search pushed
GraphOf(rs) ==
    LET IsGraph(r) == r.source = "graph"
    IN  SelectSeq(rs, IsGraph)

\* the entities searchEntities matches for the query
Matching == {e \in EntityIds : hits[e] > 0}

\* every matching entity is a seed of the BFS: neither LIMIT nor slice(0, 3)
\* leaves one out
AllMatchingAreSeeds ==
    Cardinality(Matching) <= Min2(SeedLimit(EntityLimit(opts)), GraphSeedCap)

\* the least number of relationships, in either direction, between a seed
\* and n, for an n within GraphSearchDepth of a seed
HopDistance(G, S, n) ==
    LET within(k) == \E s \in S : \E p \in PathsOfLen(G, s, k) : p.end = n
    IN  CHOOSE k \in 0..GraphSearchDepth : within(k) /\ \A j \in 0..(k - 1) : ~within(j)

\* C25: every entity result of method 'graph' has the score 1/(depth+1) of
\* its hop distance depth >= 1 from the seeds, and no seed of the BFS is
\* among the graph results.
C25_GraphScoreByHopDistance ==
    AllMatchingAreSeeds =>
        \A i \in 1..Len(GraphOf(entityResults)) :
            LET r == GraphOf(entityResults)[i]
            IN  /\ r.item.id \notin Matching
                /\ r.score = ScoreUnit \div (HopDistance(edges, Matching, r.item.id) + 1)
                /\ r.score <= ScoreUnit \div 2

(***************************************************************************)
(* IngestionPipeline: the batched phases of one ingest call                *)
(*                                                                         *)
(* batch holds batchEmbed(texts), addChunks and extractFromChunks(chunks)  *)
(* of one call.  Text k is the content of chunk k.  Loop indices and       *)
(* embeddingBatchSize are in halves (SizeUnit is 1), so that a size that   *)
(* is not a whole number is a value of the model; parallelExtractions is a *)
(* whole number of calls.                                                  *)
(*   i, open, input, embeddings   batchEmbed: index, requests in flight,   *)
(*                                the input of the last request, result    *)
(*   rows                         the rows addChunks wrote                 *)
(*   x, calls, settled            extractFromChunks: index, per chunk the  *)
(*                                state of its extract call, and the calls *)
(*                                in the order they settled                *)
(*   entities, relations          the entity map and the relation list     *)
(***************************************************************************)
SizeUnit == 2
MaxBatchChunks == 3
MaxParallel == 2
MaxBatchSize == 5

\* the embedding the capability returns for text t
EmbeddingOf(t) == [of |-> t]

\* Array.prototype.slice(from, to) over a longer slice: one element more
SliceOneMore(s, from, to) ==
    SubSeq(s, (from \div SizeUnit) + 1, Min2((to \div SizeUnit) + 1, Len(s)))

\* Array.prototype.slice(from, to): both ends are truncated to integers
Slice(s, from, to) ==
    SubSeq(s, (from \div SizeUnit) + 1, Min2(to \div SizeUnit, Len(s)))

\* i < texts.length
Below(i, s) == i < Len(s) * SizeUnit

\* the results of the calls in the order they settled
AsSettled(chunks, settled) ==
    LET InBatch(k) == \E j \in 1..Len(chunks) : chunks[j] = k
    IN  SelectSeq(settled, InBatch)

\* await Promise.all(batch.map(...)): the results in the order of the batch
PromiseAll(chunks, settled) == chunks

\* the entities of a list of extractions, extraction by extraction
RECURSIVE MentionsOf(_)
MentionsOf(extractions) ==
    IF extractions = <<>> THEN <<>>
    ELSE extractions[1].entities \o MentionsOf(Tail(extractions))

\* the relationships of a list of extractions, as relations.push leaves them
RECURSIVE RelationsOf(_)
RelationsOf(extractions) ==
    IF extractions = <<>> THEN <<>>
    ELSE [j \in 1..Len(extractions[1].relationships) |->
             ExtractRelation(extractions[1].relationships[j])]
         \o RelationsOf(Tail(extractions))

\* the loop over the mentions of the batch, on the map so far
RECURSIVE MergeAll(_, _)
MergeAll(entities, mentions) ==
    IF mentions = <<>> THEN entities
    ELSE MergeAll(MergeEntity(entities, mentions[1]), Tail(mentions))

BatchTexts(n) == [k \in 1..n |-> k]

\* the chunks of the batch the extract loop is at
CurrentBatch == Slice(BatchTexts(batch.n), batch.x, batch.x + batch.p * SizeUnit)

\* await this.openai.embeddings.create({input: batch})
EmbedRequest ==
    /\ batch.pc = "embed"
    /\ batch.open = 0
    /\ Below(batch.i, BatchTexts(batch.n))
    /\ batch' = [batch EXCEPT !.open = @ + 1,
                              !.input = Slice(BatchTexts(batch.n), batch.i,
                                              batch.i + batch.size)]
    /\ UNCHANGED <<rerankVars, expandVars, ingestVars, retrieveVars, merge, store,
                   extractor, ask, slug, chunker>>

\* the request resolves: embeddings.push(...response.data.map(d => d.embedding))
EmbedResponse ==
    /\ batch.pc = "embed"
    /\ batch.open > 0
    /\ batch' = [batch EXCEPT !.open = @ - 1,
                              !.embeddings = @ \o [j \in 1..Len(batch.input) |->
                                                      EmbeddingOf(batch.input[j])],
                              !.i = @ + batch.size]
    /\ UNCHANGED <<rerankVars, expandVars, ingestVars, retrieveVars, merge, store,
                   extractor, ask, slug, chunker>>

\* the request rejects: batchEmbed and ingest reject
EmbedThrows ==
    /\ batch.pc = "embed"
    /\ batch.open > 0
    /\ batch' = [batch EXCEPT !.open = @ - 1, !.pc = "rejected"]
    /\ UNCHANGED <<rerankVars, expandVars, ingestVars, retrieveVars, merge, store,
                   extractor, ask, slug, chunker>>

\* batchEmbed returns; addChunks(chunks.map((chunk, i) => ({embedding: embeddings[i]})))
BatchAddChunks ==
    /\ batch.pc = "embed"
    /\ batch.open = 0
    /\ ~Below(batch.i, BatchTexts(batch.n))
    /\ batch' = [batch EXCEPT
                   !.pc = "extract",
                   !.rows = [k \in 1..batch.n |->
                               [content |-> k,
                                embedding |-> IF k <= Len(batch.embeddings)
                                              THEN batch.embeddings[k]
                                              ELSE [of |-> 0],
                                chunkIndex |-> k - 1]]]
    /\ UNCHANGED <<rerankVars, expandVars, ingestVars, retrieveVars, merge, store,
                   extractor, ask, slug, chunker>>

\* batch.map((chunk) => this.extract(chunk.content)): the calls of a batch start
ExtractLaunch ==
    /\ batch.pc = "extract"
    /\ Below(batch.x, BatchTexts(batch.n))
    /\ batch' = [batch EXCEPT
                   !.pc = "extracting",
                   !.calls = [k \in 1..batch.n |->
                                IF \E j \in 1..Len(CurrentBatch) : CurrentBatch[j] = k
                                THEN "inflight" ELSE batch.calls[k]]]
    /\ UNCHANGED <<rerankVars, expandVars, ingestVars, retrieveVars, merge, store,
                   extractor, ask, slug, chunker>>

\* one extract call resolves (it catches what its chat call throws)
ExtractSettles(k) ==
    /\ batch.pc = "extracting"
    /\ batch.calls[k] = "inflight"
    /\ batch' = [batch EXCEPT !.calls[k] = "settled", !.settled = Append(@, k)]
    /\ UNCHANGED <<rerankVars, expandVars, ingestVars, retrieveVars, merge, store,
                   extractor, ask, slug, chunker>>

\* Promise.all resolves: the loop over the extractions, then i += parallelExtractions
ExtractJoin ==
    /\ batch.pc = "extracting"
    /\ \A k \in 1..batch.n : batch.calls[k] # "inflight"
    /\ LET order == PromiseAll(CurrentBatch, batch.settled)
           extractions == [j \in 1..Len(order) |-> batch.results[order[j]]]
       IN  batch' = [batch EXCEPT
                       !.pc = "extract",
                       !.entities = MergeAll(@, MentionsOf(extractions)),
                       !.relations = @ \o RelationsOf(extractions),
                       !.x = @ + batch.p * SizeUnit]
    /\ UNCHANGED <<rerankVars, expandVars, ingestVars, retrieveVars, merge, store,
                   extractor, ask, slug, chunker>>

\* return { entities, relations }
ExtractReturn ==
    /\ batch.pc = "extract"
    /\ ~Below(batch.x, BatchTexts(batch.n))
    /\ batch' = [batch EXCEPT !.pc = "done"]
    /\ UNCHANGED <<rerankVars, expandVars, ingestVars, retrieveVars, merge, store,
                   extractor, ask, slug, chunker>>

\* what extract returns for a chunk: a first mention of A, a mention of a
\* (the same slug) with another type and description, or nothing
BatchExtractions ==
    {[entities |-> <<[name |-> <<"A">>, type |-> "Person", description |-> <<"x">>]>>,
      relationships |-> <<[source |-> <<"A">>, type |-> "KNOWS", target |-> <<"b">>]>>],
     [entities |-> <<[name |-> <<"a">>, type |-> "Organization",
                      description |-> <<"y">>]>>,
      relationships |-> <<[source |-> <<"a">>, type |-> "USES", target |-> <<"b">>]>>],
     [entities |-> <<>>, relationships |-> <<>>]}

InitBatch ==
    /\ RerankIdle
    /\ ExpandIdle
    /\ IngestIdle
    /\ RetrieveIdle
    /\ merge = IdleMerge
    /\ store = IdleStore
    /\ extractor = IdleExtractor
    /\ ask = IdleAsk
    /\ slug = [pc |-> "idle"]
    /\ chunker = [pc |-> "idle"]
    /\ \E n \in 1..MaxBatchChunks : \E size \in SizeUnit..MaxBatchSize :
       \E p \in 1..MaxParallel : \E extracted \in [1..n -> BatchExtractions] :
           batch = [pc |-> "embed", n |-> n, size |-> size, p |-> p, results |-> extracted,
                    i |-> 0, open |-> 0, input |-> <<>>, embeddings |-> <<>>,
                    rows |-> <<>>, x |-> 0, calls |-> [k \in 1..n |-> "waiting"],
                    settled |-> <<>>, entities |-> <<>>, relations |-> <<>>]

NextBatch ==
    \/ EmbedRequest
    \/ EmbedResponse
    \/ EmbedThrows
    \/ BatchAddChunks
    \/ ExtractLaunch
    \/ \E k \in 1..MaxBatchChunks : k <= batch.n /\ ExtractSettles(k)
    \/ ExtractJoin
    \/ ExtractReturn

SpecBatch == InitBatch /\ [][NextBatch]_vars

InFlight == {k \in 1..batch.n : batch.calls[k] = "inflight"}

InChunkOrder == [k \in 1..batch.n |-> batch.results[k]]

\* C29: the entity map and the relation list extractFromChunks returns are
\* those of the extractions taken in chunk order, whatever the order in which
\* the calls of a batch settled.
C29_CompletionOrderFree ==
    batch.pc = "done" =>
        /\ batch.entities = ExtractEntities(MentionsOf(InChunkOrder))
        /\ batch.relations = RelationsOf(InChunkOrder)

\* A is mentioned by chunk 1 and a by chunk 2, and the call for chunk 2
\* settled first: the entry keeps the name A and its description is "x y"
C29_Witness ==
    /\ batch.pc = "done"
    /\ batch.p = 2
    /\ Len(batch.settled) >= 2 /\ batch.settled[1] = 2 /\ batch.settled[2] = 1
    /\ Len(batch.entities) = 1
    /\ batch.entities[1].name = <<"A">>
    /\ batch.entities[1].description = <<"x", " ", "y">>

(***************************************************************************)
(* Ingestion: a call made after a rejected ingest of the same content      *)
(***************************************************************************)
\* the call went through chunking, embedding and extraction
Processed(call) == {"chunk", "embed", "extract"} \subseteq call.ops

\* C27: an ingest called after an ingest of the same content rejected with
\* its document row written processes the content again: it does not resolve
\* as a repeat with isNewDocument false and counts of zero.
C27_RetryProcessedAgain ==
    \A c \in DOMAIN ingests :
        ingests[c].pc = "done" /\ ingests[c].retry =>
            /\ ingests[c].result.isNewDocument
            /\ ingests[c].result.chunkCount = 0 \/ Processed(ingests[c])

(***************************************************************************)
(* Graph expansion: the direction of the returned triples                  *)
(***************************************************************************)
\* C28: every triple buildKnowledgeGraph collects has as source the start
\* node and as target the end node of the stored relationship it reports.
C28_TriplesKeepDirection ==
    \A i \in 1..Len(triples) :
        /\ triples[i].fact \in edges
        /\ triples[i].source = triples[i].fact.source
        /\ triples[i].target = triples[i].fact.target

(***************************************************************************)
(* FixedSizeStrategy.chunk and TokenBasedStrategy.chunk                    *)
(*                                                                         *)
(* chunker holds one call: the length n of the text, the configuration,    *)
(* the loop variable start and the chunks pushed so far.  A chunk's        *)
(* content is the pair of positions text.slice(start, end) copies.  The    *)
(* loop is followed for MaxTurns turns at most.                            *)
(***************************************************************************)
MaxText == 4
MaxChunkSize == 2
MaxTurns == MaxText + 2

\* config.chunkSize * 4, config.chunkOverlap * 4
TokenChars == 4

CharSize(c) == IF c.strategy = "token" THEN c.chunkSize * TokenChars ELSE c.chunkSize
CharOverlap(c) == IF c.strategy = "token" THEN c.chunkOverlap * TokenChars ELSE c.chunkOverlap

\* const step = chunkSize - chunkOverlap
Step(c) == CharSize(c) - CharOverlap(c)

\* text.slice(start, end) for a text of n characters: a negative start
\* counts from the end of the text
TextSlice(n, start, end) ==
    LET from == IF start < 0 THEN Max2(n + start, 0) ELSE Min2(start, n)
        to == IF end < 0 THEN Max2(n + end, 0) ELSE Min2(end, n)
    IN  IF from < to THEN <<from, to>> ELSE <<>>

\* createChunk(content, index, startPos, endPos)
CreateChunk(content, index, startPos, endPos) ==
    [content |-> content, index |-> index, startPos |-> startPos, endPos |-> endPos]

\* one turn of the for loop, with its break
ChunkTurn ==
    /\ chunker.pc = "loop"
    /\ chunker.start < chunker.n
    /\ Len(chunker.chunks) < MaxTurns
    /\ LET end == Min2(chunker.start + CharSize(chunker), chunker.n)
           content == TextSlice(chunker.n, chunker.start, end)
           pushed == Append(chunker.chunks,
                            CreateChunk(content, Len(chunker.chunks), chunker.start, end))
       IN  IF end >= chunker.n
           THEN chunker' = [chunker EXCEPT !.chunks = pushed, !.pc = "done"]
           ELSE chunker' = [chunker EXCEPT !.chunks = pushed,
                                           !.start = @ + Step(chunker)]
    /\ UNCHANGED <<rerankVars, expandVars, ingestVars, retrieveVars, merge, store,
                   extractor, ask, slug, batch>>

\* start < text.length is false: return chunks
ChunkLoopEnds ==
    /\ chunker.pc = "loop"
    /\ ~(chunker.start < chunker.n)
    /\ chunker' = [chunker EXCEPT !.pc = "done"]
    /\ UNCHANGED <<rerankVars, expandVars, ingestVars, retrieveVars, merge, store,
                   extractor, ask, slug, batch>>

\* chunk(text, config) with a non-empty text and a configuration setConfig
\* took: it is merged into the current one as it comes
InitChunker ==
    /\ RerankIdle
    /\ ExpandIdle
    /\ IngestIdle
    /\ RetrieveIdle
    /\ merge = IdleMerge
    /\ store = IdleStore
    /\ extractor = IdleExtractor
    /\ ask = IdleAsk
    /\ slug = [pc |-> "idle"]
    /\ batch = [pc |-> "idle"]
    /\ \E n \in 1..MaxText : \E size \in 1..MaxChunkSize :
       \E overlap \in (0 - 1)..(MaxChunkSize + 1) : \E kind \in {"fixed", "token"} :
           chunker = [pc |-> "loop", strategy |-> kind, n |-> n, chunkSize |-> size,
                      chunkOverlap |-> overlap, start |-> 0, chunks |-> <<>>]

NextChunker == ChunkTurn \/ ChunkLoopEnds

SpecChunker == InitChunker /\ [][NextChunker]_vars

\* the chunks start at 0, end at the end of the text and leave no gap
Covers(chunks, n) ==
    /\ chunks # <<>>
    /\ chunks[1].startPos = 0
    /\ chunks[Len(chunks)].endPos = n
    /\ \A i \in 1..(Len(chunks) - 1) : chunks[i + 1].startPos <= chunks[i].endPos

\* the loop ends within text.length turns
ChunkTurnsBounded == Len(chunker.chunks) <= chunker.n

\* C30: chunk terminates for every non-empty text and every configuration,
\* chunkOverlap >= chunkSize included (a loop that ends makes at most
\* text.length turns), and the chunks returned cover the text.
C30_ChunkTerminatesAndCovers ==
    chunker.pc # "idle" =>
        /\ ChunkTurnsBounded
        /\ chunker.pc = "done" => Covers(chunker.chunks, chunker.n)

==============================================================================
